---- MODULE Spec2Model ----
(***************************************************************************)
(* Serpents Per Second: the play scene (one round of Snake), the systems   *)
(* it owns (input, timing, snake, food, scoring) and the part of the       *)
(* application that starts a round and shows its results.                  *)
(*                                                                         *)
(* Python floats are modelled as IEEE 754 binary64 values, rounding        *)
(* included.                                                               *)
(***************************************************************************)
EXTENDS Integers, Sequences, FiniteSets, TLC

VARIABLES
    mode,               \* PlayScene.mode
    walls,              \* PlayScene.walls
    collision_result,   \* <<what the latest check_collisions call returned>>, <<>> before any
    end_reason,         \* PlayScene.end_reason
    ticks_left,         \* PlayScene.update: iterations left of "for _ in range(ticks)"
    pending_direction,  \* InputHandler.pending_direction
    current_direction,  \* InputHandler.current_direction
    last_intent,        \* the latest direction intent handed to the input
                        \* handler since its last commit or reset, if any
    sfx_turn,           \* did the latest tick play the turn sound
    segments,           \* Snake.segments, head first
    direction,          \* Snake.direction
    grow_pending,       \* Snake.grow_pending
    snake_call,         \* <<the latest call made on the snake alone, with what it returned>>, <<>> before any
    food_position,      \* Food.position
    spawn_result,       \* <<what the latest Food.spawn call returned>>, <<>> before any
    animation_frame,    \* Food.animation_frame
    animation_timer,    \* Food.animation_timer
    score,              \* Scoring.score
    ticks_per_second,   \* TimingSystem.ticks_per_second
    tick_accumulator,   \* TimingSystem.tick_accumulator
    elapsed_time,       \* TimingSystem.elapsed_time
    time_remaining,     \* TimingSystem.time_remaining
    paused,             \* TimingSystem.paused
    last_scored_second, \* TimingSystem._last_scored_second
    speed_ups,          \* calls of TimingSystem.increase_speed since the reset
    time_played,        \* the frame times of the unpaused updates since the
                        \* reset, summed exactly
    current_scene,      \* App.current_scene (by name)
    maze_map_index,     \* App.maze_map_index
    results,            \* ResultsScene.mode / score / end_reason
    scores,             \* HighScores.scores: the list of entries of each mode
    table_calls,        \* calls of add_score and from_dict so far
    table_call,         \* <<the latest of those calls, with what it returned>>, <<>> before any
    name_call,          \* a name and <<what _validate_name returned for it>>, <<>> before the call
    frames              \* number of unpaused frames of the session so far

vars == <<mode, walls, collision_result, end_reason, ticks_left, pending_direction,
          current_direction, last_intent, sfx_turn, segments, direction, grow_pending,
          snake_call, food_position,
          spawn_result,
          animation_frame, animation_timer, score, ticks_per_second,
          tick_accumulator, elapsed_time, time_remaining, paused,
          last_scored_second, speed_ups, time_played, current_scene, maze_map_index, results,
          scores, table_calls, table_call, name_call, frames>>

sceneVars == <<mode, walls, collision_result, end_reason, ticks_left>>
inputVars == <<pending_direction, current_direction, last_intent, sfx_turn>>
snakeVars == <<segments, direction, grow_pending, snake_call>>
foodVars == <<food_position, spawn_result, animation_frame, animation_timer>>
timingVars == <<ticks_per_second, tick_accumulator, elapsed_time,
                time_remaining, paused, last_scored_second, speed_ups,
                time_played>>
saveVars == <<scores, table_calls, table_call, name_call>>
appVars == <<current_scene, maze_map_index, results, saveVars>>

-----------------------------------------------------------------------------
(* Bounds of the model *)

\* Frames (unpaused update calls) explored in one session.
MaxFrames == 2
\* Calls of increase_speed explored when the timing system is driven alone.
MaxSpeedUps == 26
\* Calls of add_score and from_dict explored on one high score table.
MaxTableCalls == 3
\* Calls of grow, move and get_next_head explored on one snake.
MaxSnakeCalls == 4
\* Unpaused calls of update_animation explored on one food.
MaxAnimationCalls == 4
\* The longest name handed to _validate_name.
MaxNameLength == 4
\* With at most this many free cells every draw of the random source is
\* explored; with more, the draws that land on SampleCells.
MaxDraws == 3

-----------------------------------------------------------------------------
(* Python floats: IEEE 754 binary64, round to nearest even.                  *)
(*                                                                           *)
(* A float is <<negative, a, b, c>>: the magnitude is the integer            *)
(* a * 2^48 + b * 2^24 + c in units of 2^-60, each limb below 2^24. Every    *)
(* float of the model is a multiple of 2^-60 below 4096, so sums and         *)
(* differences are formed exactly and then rounded to 53 significant bits,   *)
(* as the hardware does.                                                     *)

FLimb == 16777216

RECURSIVE BitLen(_)
BitLen(n) == IF n = 0 THEN 0 ELSE 1 + BitLen(n \div 2)

Mag(x) == <<x[2], x[3], x[4]>>

MagLess(m, n) ==
    \/ m[1] < n[1]
    \/ m[1] = n[1] /\ m[2] < n[2]
    \/ m[1] = n[1] /\ m[2] = n[2] /\ m[3] < n[3]

MagAdd(m, n) ==
    LET c == m[3] + n[3]
        b == m[2] + n[2] + (c \div FLimb)
        a == m[1] + n[1] + (b \div FLimb)
    IN  <<a, b % FLimb, c % FLimb>>

\* m - n for m >= n
MagSub(m, n) ==
    LET c == m[3] - n[3]
        cb == IF c < 0 THEN 1 ELSE 0
        b == m[2] - n[2] - cb
        bb == IF b < 0 THEN 1 ELSE 0
    IN  <<m[1] - n[1] - bb, b + bb * FLimb, c + cb * FLimb>>

MagBits(m) ==
    IF m[1] > 0 THEN 48 + BitLen(m[1])
    ELSE IF m[2] > 0 THEN 24 + BitLen(m[2])
    ELSE BitLen(m[3])

\* Rounding to 53 significant bits, ties to even; sticky tells that the exact
\* value lies above m (a division left a remainder).
MagRound(m, sticky) ==
    LET q == MagBits(m) - 53
    IN  IF q <= 0 THEN m
        ELSE LET p == 2^q
                 r == m[3] % p
                 kept == <<m[1], m[2], m[3] - r>>
                 odd == (m[3] \div p) % 2 = 1
                 up == \/ 2 * r > p
                       \/ 2 * r = p /\ (sticky \/ odd)
             IN  IF up THEN MagAdd(kept, <<0, 0, p>>) ELSE kept

FMake(neg, m) == <<neg /\ m # <<0, 0, 0>>, m[1], m[2], m[3]>>

FZero == <<FALSE, 0, 0, 0>>

\* n * 2^-k for 0 <= n < 128 and 0 <= k <= 60
FDyadic(n, k) ==
    LET shift == 60 - k
        t == n * 2^(shift % 24)
    IN  CASE shift \div 24 = 0 -> <<FALSE, 0, t \div FLimb, t % FLimb>>
          [] shift \div 24 = 1 -> <<FALSE, t \div FLimb, t % FLimb, 0>>
          [] shift \div 24 = 2 -> <<FALSE, t, 0, 0>>

FNeg(x) == FMake(~x[1], Mag(x))

\* x + y
FAdd(x, y) ==
    IF x[1] = y[1]
    THEN FMake(x[1], MagRound(MagAdd(Mag(x), Mag(y)), FALSE))
    ELSE IF MagLess(Mag(x), Mag(y))
         THEN FMake(y[1], MagRound(MagSub(Mag(y), Mag(x)), FALSE))
         ELSE FMake(x[1], MagRound(MagSub(Mag(x), Mag(y)), FALSE))

\* x + y without rounding, for x, y >= 0 (not an operation of the program: the
\* exact sum the rounded ones are compared with)
ExactAdd(x, y) == FMake(FALSE, MagAdd(Mag(x), Mag(y)))

\* x - y
FSub(x, y) == FAdd(x, FNeg(y))

\* x >= y
FGeq(x, y) ==
    IF x[1] # y[1] THEN y[1]
    ELSE IF x[1] THEN ~MagLess(Mag(y), Mag(x))
                 ELSE ~MagLess(Mag(x), Mag(y))

FLeq(x, y) == FGeq(y, x)

\* min(x, y)
FMin(x, y) == IF FLeq(x, y) THEN x ELSE y

\* int(x) for x >= 0
FInt(x) == x[2] \div 4096

\* m * k for 0 <= k < 128
MagTimes(m, k) ==
    LET c == m[3] * k
        b == m[2] * k + (c \div FLimb)
    IN  <<m[1] * k + (b \div FLimb), b % FLimb, c % FLimb>>

\* <<m \div d, m % d>> for 0 < d < 128
MagDivSmall(m, d) ==
    LET t2 == (m[1] % d) * FLimb + m[2]
        t3 == (t2 % d) * FLimb + m[3]
    IN  <<<<m[1] \div d, t2 \div d, t3 \div d>>, t3 % d>>

\* x / y for x >= 0, y a positive multiple of 1/4 below 32 and a quotient of
\* at least 1/128 (1.0 / ticks_per_second is such a quotient)
FDiv(x, y) ==
    LET twice == MagAdd(Mag(x), Mag(x))
        qr == MagDivSmall(MagAdd(twice, twice), y[2] \div 1024)
    IN  FMake(FALSE, MagRound(qr[1], qr[2] # 0))

-----------------------------------------------------------------------------
(* constants.py *)

GRID_WIDTH == 16
GRID_HEIGHT == 14
INITIAL_TICKS_PER_SECOND == FDyadic(8, 0)
SPEED_INCREMENT == FDyadic(1, 2)
MAX_TICKS_PER_SECOND == FDyadic(14, 0)
FOOD_ANIMATION_INTERVAL == FDyadic(1, 2)
TIME_ATTACK_DURATION == FDyadic(120, 0)
SCORE_PER_FOOD == 10
TIME_ATTACK_SCORE_PER_SECOND == 1

None == "None"

Direction == {"UP", "DOWN", "LEFT", "RIGHT"}
GameMode == {"classic", "boxed", "maze", "time_attack"}
EndReason == {"SELF_COLLISION", "WALL_COLLISION", "TIME_UP", "VICTORY"}

DIRECTION_VECTORS(d) ==
    CASE d = "UP" -> <<0, -1>>
      [] d = "DOWN" -> <<0, 1>>
      [] d = "LEFT" -> <<-1, 0>>
      [] d = "RIGHT" -> <<1, 0>>

OPPOSITE_DIRECTIONS(d) ==
    CASE d = "UP" -> "DOWN"
      [] d = "DOWN" -> "UP"
      [] d = "LEFT" -> "RIGHT"
      [] d = "RIGHT" -> "LEFT"

-----------------------------------------------------------------------------
(* content/modes.py *)

MODE_CONFIGS(m) ==
    CASE m = "classic" ->
            [wrap_around |-> TRUE, border_lethal |-> FALSE,
             has_walls |-> FALSE, time_limit |-> FZero]
      [] m = "boxed" ->
            [wrap_around |-> FALSE, border_lethal |-> TRUE,
             has_walls |-> FALSE, time_limit |-> FZero]
      [] m = "maze" ->
            [wrap_around |-> FALSE, border_lethal |-> TRUE,
             has_walls |-> TRUE, time_limit |-> FZero]
      [] m = "time_attack" ->
            [wrap_around |-> TRUE, border_lethal |-> FALSE,
             has_walls |-> FALSE, time_limit |-> TIME_ATTACK_DURATION]

\* Every mode has the lethal border of Boxed and does not wrap.
get_mode_config_all_boxed(m) ==
    [MODE_CONFIGS(m) EXCEPT !.wrap_around = FALSE, !.border_lethal = TRUE]

get_mode_config(m) == MODE_CONFIGS(m)

-----------------------------------------------------------------------------
(* content/maps.py *)

MAP_1 ==
    {<<7, 3>>, <<8, 3>>, <<7, 4>>, <<8, 4>>,
     <<7, 9>>, <<8, 9>>, <<7, 10>>, <<8, 10>>,
     <<3, 6>>, <<4, 6>>, <<3, 7>>, <<4, 7>>,
     <<11, 6>>, <<12, 6>>, <<11, 7>>, <<12, 7>>}

MAP_2 ==
    {<<2, 2>>, <<3, 2>>, <<2, 3>>, <<3, 3>>,
     <<12, 2>>, <<13, 2>>, <<12, 3>>, <<13, 3>>,
     <<2, 10>>, <<3, 10>>, <<2, 11>>, <<3, 11>>,
     <<12, 10>>, <<13, 10>>, <<12, 11>>, <<13, 11>>}

MAP_3 ==
    {<<x, 4>> : x \in 3..7} \cup {<<x, 4>> : x \in 9..13} \cup
    {<<x, 9>> : x \in 3..7} \cup {<<x, 9>> : x \in 9..13}

MAP_4 ==
    {<<4, y>> : y \in 2..5} \cup {<<4, y>> : y \in 8..11} \cup
    {<<11, y>> : y \in 2..5} \cup {<<11, y>> : y \in 8..11}

MAP_5 ==
    {<<4, 3>>, <<11, 3>>, <<3, 6>>, <<12, 6>>, <<4, 10>>, <<11, 10>>,
     <<7, 5>>, <<8, 5>>, <<7, 8>>, <<8, 8>>, <<5, 7>>, <<10, 7>>}

ALL_MAPS == <<MAP_1, MAP_2, MAP_3, MAP_4, MAP_5>>

\* Every index gives the first layout.
get_map_set_first(index) == ALL_MAPS[1]

get_map_set(index) == ALL_MAPS[(index % Len(ALL_MAPS)) + 1]

-----------------------------------------------------------------------------
(* game/snake.py *)

\* The segments extend to the right of the start cell.
SnakeReset_rightward == [i \in 1..3 |-> <<3 + (i - 1), 7>>]

\* Snake.reset(start_x=3, start_y=7, length=3)
SnakeReset == [i \in 1..3 |-> <<3 - (i - 1), 7>>]

\* Both coordinates are wrapped by the grid's width.
get_next_head_square(segs, dir, wrap) ==
    LET v == DIRECTION_VECTORS(dir)
        new_x == segs[1][1] + v[1]
        new_y == segs[1][2] + v[2]
    IN  IF wrap
        THEN <<new_x % GRID_WIDTH, new_y % GRID_WIDTH>>
        ELSE <<new_x, new_y>>

\* Snake.get_next_head
get_next_head(segs, dir, wrap) ==
    LET v == DIRECTION_VECTORS(dir)
        new_x == segs[1][1] + v[1]
        new_y == segs[1][2] + v[2]
    IN  IF wrap
        THEN <<new_x % GRID_WIDTH, new_y % GRID_HEIGHT>>
        ELSE <<new_x, new_y>>

\* The tail is removed even when growth is pending.
move_always_pop(segs, dir, grow, wrap) ==
    LET inserted == <<get_next_head(segs, dir, wrap)>> \o segs
    IN  SubSeq(inserted, 1, Len(inserted) - 1)

\* Without growth the old head is removed, not the tail.
move_pop_head(segs, dir, grow, wrap) ==
    LET inserted == <<get_next_head(segs, dir, wrap)>> \o segs
    IN  IF grow
        THEN inserted
        ELSE <<inserted[1]>> \o SubSeq(inserted, 3, Len(inserted))

\* Without growth two segments are removed from the tail.
move_pop_two(segs, dir, grow, wrap) ==
    LET inserted == <<get_next_head(segs, dir, wrap)>> \o segs
    IN  IF grow
        THEN inserted
        ELSE SubSeq(inserted, 1, Len(inserted) - 2)

\* The tail is kept on every move.
move_never_pop(segs, dir, grow, wrap) ==
    <<get_next_head(segs, dir, wrap)>> \o segs

\* Snake.move: the segments after the move
move(segs, dir, grow, wrap) ==
    LET inserted == <<get_next_head(segs, dir, wrap)>> \o segs
    IN  IF grow
        THEN inserted
        ELSE SubSeq(inserted, 1, Len(inserted) - 1)

\* Snake.body
body(segs) == SubSeq(segs, 2, Len(segs))

\* Snake._get_direction_between(from_pos, to_pos)
_get_direction_between(from_pos, to_pos) ==
    LET dx0 == to_pos[1] - from_pos[1]
        dy0 == to_pos[2] - from_pos[2]
        dx == IF dx0 > 1 THEN -1 ELSE IF dx0 < -1 THEN 1 ELSE dx0
        dy == IF dy0 > 1 THEN -1 ELSE IF dy0 < -1 THEN 1 ELSE dy0
    IN  IF \E d \in Direction : DIRECTION_VECTORS(d) = <<dx, dy>>
        THEN CHOOSE d \in Direction : DIRECTION_VECTORS(d) = <<dx, dy>>
        ELSE "RIGHT"

\* Snake.get_segment_directions: one <<incoming, outgoing>> per segment
get_segment_directions(segs) ==
    [i \in 1..Len(segs) |->
        <<IF i > 1 THEN _get_direction_between(segs[i], segs[i - 1])
                   ELSE None,
          IF i < Len(segs) THEN _get_direction_between(segs[i], segs[i + 1])
                           ELSE None>>]

Range(s) == {s[i] : i \in 1..Len(s)}

-----------------------------------------------------------------------------
(* game/collision.py *)

check_self_collision(head, bd) == head \in Range(bd)

\* The far edges are taken one cell too far out.
check_border_collision_far(head) ==
    head[1] < 0 \/ head[1] > GRID_WIDTH \/ head[2] < 0 \/ head[2] > GRID_HEIGHT

check_border_collision(head) ==
    head[1] < 0 \/ head[1] >= GRID_WIDTH \/ head[2] < 0 \/ head[2] >= GRID_HEIGHT

check_wall_collision(head, ws) == head \in ws

\* The border test is left out.
check_collisions_no_border(head, bd, border_lethal, ws) ==
    IF check_self_collision(head, bd) THEN "SELF_COLLISION"
    ELSE IF ws # {} /\ check_wall_collision(head, ws) THEN "WALL_COLLISION"
    ELSE None

\* The border is tested before the body.
check_collisions_border_first(head, bd, border_lethal, ws) ==
    IF border_lethal /\ check_border_collision(head) THEN "WALL_COLLISION"
    ELSE IF check_self_collision(head, bd) THEN "SELF_COLLISION"
    ELSE IF ws # {} /\ check_wall_collision(head, ws)
         THEN "WALL_COLLISION"
    ELSE None

\* "if walls and ...": None and the empty set are both falsy, and both are
\* passed as {}
check_collisions(head, bd, border_lethal, ws) ==
    IF check_self_collision(head, bd) THEN "SELF_COLLISION"
    ELSE IF border_lethal /\ check_border_collision(head) THEN "WALL_COLLISION"
    ELSE IF ws # {} /\ check_wall_collision(head, ws)
         THEN "WALL_COLLISION"
    ELSE None

-----------------------------------------------------------------------------
(* game/food.py *)

\* The walls are not added.
occupied_cells_no_walls(segs, ws) == Range(segs)

\* occupied = set(snake_segments), plus the walls when there are any
occupied_cells(segs, ws) == Range(segs) \cup ws

\* The scan stops one column short.
valid_positions_short(segs, ws) ==
    {<<x, y>> : x \in 0..(GRID_WIDTH - 2), y \in 0..(GRID_HEIGHT - 1)}
        \ occupied_cells(segs, ws)

\* the elements of valid_positions
valid_positions(segs, ws) ==
    {<<x, y>> : x \in 0..(GRID_WIDTH - 1), y \in 0..(GRID_HEIGHT - 1)}
        \ occupied_cells(segs, ws)

\* Cells the explored draws of the random source land on when many are free.
SampleCells == {<<4, 7>>, <<5, 7>>, <<15, 0>>}

\* rng.choice(valid_positions): any element; the random source is an input
\* of the model, bounded by MaxDraws and SampleCells.
rng_choice(valid) ==
    IF Cardinality(valid) <= MaxDraws \/ valid \cap SampleCells = {}
    THEN valid
    ELSE valid \cap SampleCells

\* The spawn gives up when a single cell is left.
spawn_gives_up_early(segs, ws, position) ==
    LET valid == valid_positions(segs, ws)
    IN  IF Cardinality(valid) <= 1
        THEN {[ok |-> FALSE, position |-> position]}
        ELSE {[ok |-> TRUE, position |-> p] : p \in rng_choice(valid)}

\* Food.spawn: the possible outcomes [ok, position]
spawn(segs, ws, position) ==
    LET valid == valid_positions(segs, ws)
    IN  IF valid = {}
        THEN {[ok |-> FALSE, position |-> position]}
        ELSE {[ok |-> TRUE, position |-> p] : p \in rng_choice(valid)}

\* Food.update_animation(dt, paused): <<animation_frame, animation_timer>>
update_animation(frame, timer, dt, is_paused) ==
    IF is_paused THEN <<frame, timer>>
    ELSE LET t == FAdd(timer, dt)
         IN  IF FGeq(t, FOOD_ANIMATION_INTERVAL)
             THEN <<1 - frame, FSub(t, FOOD_ANIMATION_INTERVAL)>>
             ELSE <<frame, t>>

is_at(position, pos) == position = pos

-----------------------------------------------------------------------------
(* systems/input.py *)

\* An intent already pending is kept (the input is buffered).
handle_key_down_keep_first(pending, new_dir) ==
    IF pending = None THEN new_dir ELSE pending

\* InputHandler.handle_key_down, a direction key: the new pending_direction
handle_key_down(pending, new_dir) == new_dir

\* The reversal test is left out.
apply_pending_direction_no_check(current, pending) ==
    IF pending = None THEN <<current, pending>> ELSE <<pending, None>>

\* InputHandler.apply_pending_direction: <<current_direction, pending_direction>>
apply_pending_direction(current, pending) ==
    IF pending = None THEN <<current, pending>>
    ELSE IF OPPOSITE_DIRECTIONS(current) = pending THEN <<current, None>>
    ELSE <<pending, None>>

\* Any pending direction counts as a change.
direction_changed_on_tick_any_pending(current, pending) == pending # None

\* InputHandler.direction_changed_on_tick
direction_changed_on_tick(current, pending) ==
    IF pending = None THEN FALSE
    ELSE IF OPPOSITE_DIRECTIONS(current) = pending THEN FALSE
    ELSE pending # current

-----------------------------------------------------------------------------
(* systems/timing.py *)

\* The interval stays that of the initial speed.
get_tick_interval_initial(tps) == FDiv(FDyadic(1, 0), INITIAL_TICKS_PER_SECOND)

\* TimingSystem.get_tick_interval
get_tick_interval(tps) == FDiv(FDyadic(1, 0), tps)

\* An accumulator equal to the interval is not yet a tick.
RECURSIVE tick_loop_strict(_, _, _)
tick_loop_strict(acc, interval, ticks) ==
    IF FGeq(acc, interval) /\ acc # interval
    THEN tick_loop_strict(FSub(acc, interval), interval, ticks + 1)
    ELSE <<acc, ticks>>

\* the while loop of TimingSystem.update: <<tick_accumulator, ticks>>
RECURSIVE tick_loop(_, _, _)
tick_loop(acc, interval, ticks) ==
    IF FGeq(acc, interval)
    THEN tick_loop(FSub(acc, interval), interval, ticks + 1)
    ELSE <<acc, ticks>>

\* TimingSystem.update(dt): <<tick_accumulator, ticks, elapsed_time>>
timing_update(acc, elapsed, tps, dt, is_paused) ==
    IF is_paused THEN <<acc, 0, elapsed>>
    ELSE LET looped == tick_loop(FAdd(acc, dt), get_tick_interval(tps), 0)
         IN  <<looped[1], looped[2], FAdd(elapsed, dt)>>

\* The comparison is the wrong way round: time is up while some remains.
update_time_attack_flipped(remaining, dt, is_paused) ==
    IF is_paused THEN <<remaining, FALSE>>
    ELSE <<FSub(remaining, dt), FGeq(FSub(remaining, dt), FZero)>>

\* The countdown runs at twice the pace.
update_time_attack_double(remaining, dt, is_paused) ==
    IF is_paused THEN <<remaining, FALSE>>
    ELSE <<FSub(remaining, FAdd(dt, dt)),
           FLeq(FSub(remaining, FAdd(dt, dt)), FZero)>>

\* TimingSystem.update_time_attack(dt): <<time_remaining, expired>>
update_time_attack(remaining, dt, is_paused) ==
    IF is_paused THEN <<remaining, FALSE>>
    ELSE <<FSub(remaining, dt), FLeq(FSub(remaining, dt), FZero)>>

\* The cap is left out.
increase_speed_uncapped(tps) == FAdd(tps, SPEED_INCREMENT)

\* The last step, onto the cap, is not taken.
increase_speed_below_cap(tps) ==
    IF FGeq(FAdd(tps, SPEED_INCREMENT), MAX_TICKS_PER_SECOND)
    THEN tps
    ELSE FAdd(tps, SPEED_INCREMENT)

\* TimingSystem.increase_speed
increase_speed(tps) == FMin(FAdd(tps, SPEED_INCREMENT), MAX_TICKS_PER_SECOND)

\* A second that has already been scored counts again.
check_second_scored_again(elapsed, last) == FInt(elapsed) >= last

\* TimingSystem.check_second_scored: does a new whole second count
check_second_scored(elapsed, last) == FInt(elapsed) > last


-----------------------------------------------------------------------------
(* game/scoring.py *)

\* A food scores what a second of TimeAttack scores.
add_food_score_as_second(sc) == sc + TIME_ATTACK_SCORE_PER_SECOND

\* Scoring.add_food_score
add_food_score(sc) == sc + SCORE_PER_FOOD

add_time_score(sc) == sc + TIME_ATTACK_SCORE_PER_SECOND

-----------------------------------------------------------------------------
(* systems/saves.py: high scores. A string is the sequence of its code      *)
(* points; an absent or None value is <<>> and a present one <<value>>.     *)

\* constants.py: NAME_CHARSET = "ABCDEFGHIJKLMNOPQRSTUVWXYZ0123456789"
NAME_CHARSET == (65..90) \cup (48..57)
MAX_HIGHSCORES == 10

\* "AAA"
NAME_DEFAULT == <<65, 65, 65>>

\* Letters are left in the case they have.
upper_char_same_case(c) == <<c>>

\* str.upper of one character: a-z become A-Z and the sharp s becomes "SS";
\* the other characters the model uses have no upper case of their own.
upper_char(c) ==
    IF c \in 97..122 THEN <<c - 32>>
    ELSE IF c = 223 THEN <<83, 83>>
    ELSE <<c>>

RECURSIVE upper(_)
\* str.upper
upper(str) ==
    IF str = <<>> THEN <<>> ELSE upper_char(Head(str)) \o upper(Tail(str))

\* _validate_name
_validate_name(name) ==
    IF Len(name) # 3 THEN NAME_DEFAULT
    ELSE LET up == upper(name)
             sanitized == [i \in 1..Len(up) |->
                              IF up[i] \in NAME_CHARSET THEN up[i] ELSE 65]
         IN  IF Len(sanitized) >= 3 THEN SubSeq(sanitized, 1, 3)
                                    ELSE NAME_DEFAULT

\* datetime.now(timezone.utc).strftime("%Y-%m-%dT%H:%M:%SZ"): the seconds
\* field, two digits; the rest of the stamp is the same for all entries.
strftime(now) == <<48 + (now \div 10), 48 + (now % 10)>>

\* str < str: the first differing character decides, a proper prefix is less
StrLess(a, b) ==
    \E i \in 1..Len(b) :
        /\ \A j \in 1..(i - 1) : j <= Len(a) /\ a[j] = b[j]
        /\ i > Len(a) \/ a[i] < b[i]

\* HighScoreEntry(name, score, ts) at the time now; ts is <<>> or <<string>>
HighScoreEntry(name, sc, ts, now) ==
    [name |-> _validate_name(name),
     score |-> IF sc > 0 THEN sc ELSE 0,
     ts |-> IF ts = <<>> \/ ts[1] = <<>> THEN strftime(now) ELSE ts[1]]

\* HighScoreEntry.from_dict: data.get("name", "AAA"), data.get("score", 0),
\* data.get("ts")
entry_from_dict(data, now) ==
    HighScoreEntry(IF data.name = <<>> THEN NAME_DEFAULT ELSE data.name[1],
                   IF data.score = <<>> THEN 0 ELSE data.score[1],
                   data.ts, now)

\* key=lambda e: (-e.score, e.ts), compared as tuples: e1's key <= e2's key
KeyLeq(e1, e2) ==
    \/ e1.score > e2.score
    \/ e1.score = e2.score /\ ~StrLess(e2.ts, e1.ts)

RECURSIVE sort_entries(_)
\* sorted(entries, key=...) and list.sort(key=...): a stable sort
sort_entries(es) ==
    IF es = <<>> THEN <<>>
    ELSE LET front == sort_entries(SubSeq(es, 1, Len(es) - 1))
             e == es[Len(es)]
             k == Cardinality({i \in 1..Len(front) : KeyLeq(front[i], e)})
         IN  SubSeq(front, 1, k) \o <<e>> \o SubSeq(front, k + 1, Len(front))

\* The last MAX_HIGHSCORES entries are kept.
truncate_keep_last(es) ==
    IF Len(es) > MAX_HIGHSCORES
    THEN SubSeq(es, Len(es) - MAX_HIGHSCORES + 1, Len(es)) ELSE es

\* entries[:MAX_HIGHSCORES]
truncate(es) ==
    IF Len(es) > MAX_HIGHSCORES THEN SubSeq(es, 1, MAX_HIGHSCORES) ELSE es

\* HighScores.from_dict: a mode whose value in data is a list gets the
\* entries made of the dicts in it, sorted and cut; the other modes stay
from_dict(table, data, now) ==
    [m \in GameMode |->
        IF m \in DOMAIN data /\ data[m].is_list
        THEN LET dicts == SelectSeq(data[m].items, LAMBDA e : e.is_dict)
                 entries == [i \in 1..Len(dicts) |->
                                entry_from_dict(dicts[i], now)]
             IN  truncate(sort_entries(entries))
        ELSE table[m]]

\* A score equal to the last entry's qualifies too.
qualifies_on_equal(table, m, sc) ==
    \/ Len(table[m]) < MAX_HIGHSCORES
    \/ sc >= table[m][Len(table[m])].score

\* HighScores.qualifies
qualifies(table, m, sc) ==
    \/ Len(table[m]) < MAX_HIGHSCORES
    \/ sc > table[m][Len(table[m])].score

\* HighScores.add_score: the table after the call and what it returns
add_score(table, m, name, sc, now) ==
    IF ~qualifies(table, m, sc)
    THEN [scores |-> table, ok |-> FALSE]
    ELSE LET entry == HighScoreEntry(name, sc, <<>>, now)
             entries == sort_entries(Append(table[m], entry))
         IN  [scores |-> [table EXCEPT ![m] = truncate(entries)], ok |-> TRUE]

-----------------------------------------------------------------------------
(* The state after construction: App.__init__ and App.init, which creates    *)
(* the scenes (PlayScene.__init__) and enters the main menu.                 *)

Init ==
    /\ mode = "classic"
    /\ walls = {}
    /\ collision_result = <<>>
    /\ end_reason = None
    /\ ticks_left = 0
    /\ pending_direction = None
    /\ current_direction = "RIGHT"
    /\ last_intent = None
    /\ sfx_turn = FALSE
    /\ segments = <<>>
    /\ direction = "RIGHT"
    /\ grow_pending = FALSE
    /\ snake_call = <<>>
    /\ food_position = <<0, 0>>
    /\ spawn_result = <<>>
    /\ animation_frame = 0
    /\ animation_timer = FZero
    /\ score = 0
    /\ ticks_per_second = INITIAL_TICKS_PER_SECOND
    /\ tick_accumulator = FZero
    /\ elapsed_time = FZero
    /\ time_remaining = TIME_ATTACK_DURATION
    /\ paused = FALSE
    /\ last_scored_second = 0
    /\ speed_ups = 0
    /\ time_played = FZero
    /\ current_scene = "main_menu"
    /\ maze_map_index = 0
    /\ scores = [m \in GameMode |-> <<>>]
    /\ table_calls = 0
    /\ table_call = <<>>
    /\ name_call = [name |-> <<>>, out |-> <<>>]
    /\ results = [mode |-> "classic", score |-> 0, reason |-> "SELF_COLLISION"]
    /\ frames = 0

-----------------------------------------------------------------------------
(* scenes/play.py and app.py *)

\* PlayScene.start_game(mode, maze_index)
PlayStartGame(m, maze_index) ==
    LET cfg == get_mode_config(m)
        new_walls == IF cfg.has_walls THEN get_map_set(maze_index) ELSE {}
    IN  /\ mode' = m
        /\ walls' = new_walls
        /\ collision_result' = <<>>
        /\ pending_direction' = None
        /\ current_direction' = "RIGHT"
        /\ last_intent' = None
        /\ ticks_per_second' = INITIAL_TICKS_PER_SECOND
        /\ tick_accumulator' = FZero
        /\ elapsed_time' = FZero
        /\ time_remaining' =
              IF m = "time_attack" THEN TIME_ATTACK_DURATION ELSE FZero
        /\ paused' = FALSE
        /\ last_scored_second' = 0
        /\ speed_ups' = 0
        /\ time_played' = FZero
        /\ segments' = SnakeReset
        /\ direction' = "RIGHT"
        /\ grow_pending' = FALSE
        /\ UNCHANGED snake_call
        /\ score' = 0
        /\ end_reason' = None
        /\ \E out \in spawn(SnakeReset, new_walls, food_position) :
              /\ food_position' = out.position
              /\ spawn_result' = <<out.ok>>
        /\ UNCHANGED <<animation_frame, animation_timer, sfx_turn>>

\* App.start_game(mode): the maze layout rotates, the play scene is entered
StartGame(m) ==
    /\ ticks_left = 0
    /\ PlayStartGame(m, IF m = "maze" THEN maze_map_index ELSE 0)
    /\ maze_map_index' =
          IF m = "maze" THEN (maze_map_index + 1) % 5 ELSE maze_map_index
    /\ current_scene' = "play"
    /\ UNCHANGED <<ticks_left, results, saveVars, frames>>

\* Direction keys are taken while paused too.
direction_key_taken_always(is_paused) == TRUE

\* play.py, handle_event: "if not self.timing.paused and event.key in
\* DIRECTION_KEYS"
direction_key_taken(is_paused) == ~is_paused

\* PlayScene.handle_event, a direction key
KeyDown(d) ==
    /\ ticks_left = 0
    /\ pending_direction' =
          IF direction_key_taken(paused)
          THEN handle_key_down(pending_direction, d)
          ELSE pending_direction
    /\ last_intent' = IF direction_key_taken(paused) THEN d ELSE last_intent
    /\ UNCHANGED <<sceneVars, current_direction, sfx_turn, snakeVars, foodVars, score,
                   timingVars, appVars, frames>>

\* PlayScene.handle_event, the pause key: TimingSystem.toggle_pause
PauseKey ==
    /\ ticks_left = 0
    /\ paused' = ~paused
    /\ UNCHANGED <<sceneVars, inputVars, snakeVars, foodVars, score,
                   ticks_per_second, tick_accumulator, elapsed_time,
                   time_remaining, last_scored_second, speed_ups,
                   time_played, appVars, frames>>

\* PlayScene.handle_event, the back key
BackKey ==
    /\ ticks_left = 0
    /\ current_scene' = "main_menu"
    /\ UNCHANGED <<sceneVars, inputVars, snakeVars, foodVars, score,
                   timingVars, maze_map_index, results, saveVars, frames>>

\* The results are handed over but the play scene stays the current scene.
EndGame_stays_in_play(reason, sc) ==
    IF reason # None
    THEN /\ end_reason' = reason
         /\ results' = [mode |-> mode, score |-> sc, reason |-> reason]
         /\ UNCHANGED current_scene
    ELSE UNCHANGED <<end_reason, results, current_scene>>

\* PlayScene._end_game(reason) with the score sc, or no end when reason is None
EndGame(reason, sc) ==
    IF reason # None
    THEN /\ end_reason' = reason
         /\ results' = [mode |-> mode, score |-> sc, reason |-> reason]
         /\ current_scene' = "results"
    ELSE UNCHANGED <<end_reason, results, current_scene>>

\* Frame times the host supplies.
FrameTimes == {FDyadic(1, 4), FDyadic(1, 3), FDyadic(1, 0)}

\* In a timed mode also a frame as long as the whole time limit.
FrameTimesOf(m) ==
    FrameTimes \cup (IF get_mode_config(m).time_limit # FZero
                     THEN {get_mode_config(m).time_limit} ELSE {})

\* The time-up test of PlayScene.update: <<time_remaining, expired>>
time_attack_step(cfg, remaining, dt, is_paused) ==
    IF FGeq(cfg.time_limit, FZero) /\ cfg.time_limit # FZero
    THEN update_time_attack(remaining, dt, is_paused)
    ELSE <<remaining, FALSE>>

\* The frame runs while paused too.
update_runs_always(is_paused) == TRUE

\* play.py, update: "if self.timing.paused: return"
update_runs(is_paused) == ~is_paused

\* PlayScene.update(dt) up to the tick loop; the ticks it found due are then
\* processed one by one by ProcessTick before anything else happens.
Update(dt) ==
    /\ ticks_left = 0
    /\ Len(segments) > 0
    /\ IF ~update_runs(paused)
       THEN UNCHANGED vars
       ELSE LET cfg == get_mode_config(mode)
                timed == cfg.time_limit # FZero
                anim == update_animation(animation_frame, animation_timer,
                                         dt, paused)
                ta == time_attack_step(cfg, time_remaining, dt, paused)
                expired == ta[2]
                scored == timed /\ check_second_scored(elapsed_time,
                                                       last_scored_second)
                upd == timing_update(tick_accumulator, elapsed_time,
                                     ticks_per_second, dt, paused)
            IN  /\ frames < MaxFrames
                /\ frames' = frames + 1
                /\ time_played' = ExactAdd(time_played, dt)
                /\ animation_frame' = anim[1]
                /\ animation_timer' = anim[2]
                /\ time_remaining' = ta[1]
                /\ IF expired
                   THEN /\ EndGame("TIME_UP", score)
                        /\ UNCHANGED <<score, last_scored_second,
                                       elapsed_time, tick_accumulator,
                                       ticks_left>>
                   ELSE /\ last_scored_second' =
                              IF scored THEN FInt(elapsed_time)
                                        ELSE last_scored_second
                        /\ score' = IF scored THEN add_time_score(score)
                                              ELSE score
                        /\ elapsed_time' = upd[3]
                        /\ tick_accumulator' = upd[1]
                        /\ ticks_left' = upd[2]
                        /\ EndGame(None, score)
                /\ UNCHANGED <<mode, walls, collision_result, inputVars, snakeVars,
                               food_position, spawn_result, ticks_per_second,
                               paused, speed_ups, maze_map_index, saveVars>>

\* play.py, _process_tick: a collision returns before the food step
food_step_runs(collision) == collision = None

\* The tick loop keeps going after a tick has ended the round.
remaining_ticks_no_stop(left, reason) == left - 1

\* play.py, update: "if self.end_reason: return" after each tick
remaining_ticks(left, reason) == IF reason # None THEN 0 ELSE left - 1

\* PlayScene._process_tick, one iteration of the tick loop of update
ProcessTick ==
    /\ ticks_left > 0
    /\ LET cfg == get_mode_config(mode)
           direction_changed == direction_changed_on_tick(current_direction,
                                                          pending_direction)
           committed == apply_pending_direction(current_direction,
                                                pending_direction)
           moved == move(segments, committed[1], grow_pending, cfg.wrap_around)
           new_head == moved[1]
           collision == check_collisions(new_head, body(moved),
                            cfg.border_lethal,
                            IF cfg.has_walls THEN walls ELSE {})
           eats == food_step_runs(collision) /\ is_at(food_position, new_head)
       IN  /\ current_direction' = committed[1]
           /\ pending_direction' = committed[2]
           /\ last_intent' = None
           /\ sfx_turn' = direction_changed
           /\ direction' = committed[1]
           /\ segments' = moved
           /\ IF eats
              THEN /\ grow_pending' = TRUE
                   /\ score' = add_food_score(score)
                   /\ ticks_per_second' = increase_speed(ticks_per_second)
                   /\ speed_ups' = speed_ups + 1
                   /\ \E out \in spawn(moved, walls, food_position) :
                         /\ food_position' = out.position
                         /\ spawn_result' = <<out.ok>>
                         /\ EndGame(IF out.ok THEN collision ELSE "VICTORY",
                                    score')
              ELSE /\ grow_pending' = FALSE
                   /\ UNCHANGED <<score, ticks_per_second, speed_ups,
                                  food_position, spawn_result>>
                   /\ EndGame(collision, score)
           /\ ticks_left' = remaining_ticks(ticks_left, end_reason')
           /\ collision_result' = <<collision>>
           /\ UNCHANGED <<mode, walls, animation_frame, animation_timer,
                          tick_accumulator, elapsed_time, time_remaining,
                          paused, last_scored_second, time_played,
                          maze_map_index, saveVars, snake_call, frames>>

\* App.run: events and updates go to the current scene. A game is started
\* from the mode menu or from the results scene, never from the play scene.
Next ==
    \/ /\ current_scene # "play"
       /\ \E m \in GameMode : StartGame(m)
    \/ /\ current_scene = "play"
       /\ \/ \E d \in Direction : KeyDown(d)
          \/ PauseKey
          \/ BackKey
          \/ \E dt \in FrameTimesOf(mode) : Update(dt)
          \/ ProcessTick

Spec == Init /\ [][Next]_vars

-----------------------------------------------------------------------------
(* The end of a long Classic round: the snake has eaten 220 times along the  *)
(* closed tour HamCycle of the grid and fills every cell but the one the     *)
(* food is on, which lies straight ahead of its head.                        *)

\* A closed tour of the grid: row 0 rightwards, rows 1..13 to and fro over the
\* columns 1..15, column 0 back up.
HamCycle ==
    [i \in 1..(GRID_WIDTH * GRID_HEIGHT) |->
        IF i <= GRID_WIDTH THEN <<i - 1, 0>>
        ELSE IF i <= GRID_WIDTH + (GRID_HEIGHT - 1) * (GRID_WIDTH - 1)
        THEN LET k == i - GRID_WIDTH - 1
                 y == 1 + (k \div (GRID_WIDTH - 1))
                 j == k % (GRID_WIDTH - 1)
             IN  IF y % 2 = 1 THEN <<GRID_WIDTH - 1 - j, y>> ELSE <<1 + j, y>>
        ELSE <<0, GRID_WIDTH * GRID_HEIGHT + 1 - i>>]

\* The snake on the tour, head first, leaving the last n cells of the tour free
TourSnake(n) ==
    [i \in 1..(GRID_WIDTH * GRID_HEIGHT - n) |->
        HamCycle[GRID_WIDTH * GRID_HEIGHT - n + 1 - i]]

InitLate ==
    /\ mode = "classic"
    /\ walls = {}
    /\ collision_result = <<>>
    /\ end_reason = None
    /\ ticks_left = 0
    /\ pending_direction = None
    /\ current_direction = "UP"
    /\ last_intent = None
    /\ sfx_turn = FALSE
    /\ segments = TourSnake(1)
    /\ direction = "UP"
    /\ grow_pending = FALSE
    /\ snake_call = <<>>
    /\ food_position = HamCycle[GRID_WIDTH * GRID_HEIGHT]
    /\ spawn_result = <<TRUE>>
    /\ animation_frame = 0
    /\ animation_timer = FZero
    /\ score = 220 * SCORE_PER_FOOD
    /\ ticks_per_second = MAX_TICKS_PER_SECOND
    /\ tick_accumulator = FZero
    /\ elapsed_time = FDyadic(60, 0)
    /\ time_remaining = FZero
    /\ paused = FALSE
    /\ last_scored_second = 0
    /\ speed_ups = 220
    /\ time_played = FDyadic(60, 0)
    /\ current_scene = "play"
    /\ maze_map_index = 0
    /\ scores = [m \in GameMode |-> <<>>]
    /\ table_calls = 0
    /\ table_call = <<>>
    /\ name_call = [name |-> <<>>, out |-> <<>>]
    /\ results = [mode |-> "classic", score |-> 0, reason |-> "SELF_COLLISION"]
    /\ frames = 0

SpecLate == (Init \/ InitLate) /\ [][Next]_vars

-----------------------------------------------------------------------------
(* Food.spawn on its own: boards from nearly full to nearly empty *)

FoodBoards ==
    {TourSnake(n) : n \in 0..(MaxDraws + 1)} \cup {SnakeReset}

FoodWalls ==
    {{}, MAP_1, {HamCycle[GRID_WIDTH * GRID_HEIGHT]},
     {HamCycle[i] : i \in (GRID_WIDTH * GRID_HEIGHT - 1)..(GRID_WIDTH * GRID_HEIGHT)}}

InitFood ==
    /\ mode = "classic"
    /\ walls \in FoodWalls
    /\ collision_result = <<>>
    /\ end_reason = None
    /\ ticks_left = 0
    /\ pending_direction = None
    /\ current_direction = "RIGHT"
    /\ last_intent = None
    /\ sfx_turn = FALSE
    /\ segments \in FoodBoards
    /\ direction = "RIGHT"
    /\ grow_pending = FALSE
    /\ snake_call = <<>>
    /\ food_position \in {<<0, 0>>, <<0, 1>>, <<4, 7>>}
    /\ spawn_result = <<>>
    /\ animation_frame = 0
    /\ animation_timer = FZero
    /\ score = 0
    /\ ticks_per_second = INITIAL_TICKS_PER_SECOND
    /\ tick_accumulator = FZero
    /\ elapsed_time = FZero
    /\ time_remaining = TIME_ATTACK_DURATION
    /\ paused = FALSE
    /\ last_scored_second = 0
    /\ speed_ups = 0
    /\ time_played = FZero
    /\ current_scene = "main_menu"
    /\ maze_map_index = 0
    /\ scores = [m \in GameMode |-> <<>>]
    /\ table_calls = 0
    /\ table_call = <<>>
    /\ name_call = [name |-> <<>>, out |-> <<>>]
    /\ results = [mode |-> "classic", score |-> 0, reason |-> "SELF_COLLISION"]
    /\ frames = 0

\* food.spawn(snake_segments, walls)
FoodSpawnCall ==
    /\ \E out \in spawn(segments, walls, food_position) :
          /\ food_position' = out.position
          /\ spawn_result' = <<out.ok>>
    /\ UNCHANGED <<sceneVars, inputVars, snakeVars, animation_frame,
                   animation_timer, score, timingVars, appVars, frames>>

NextFood == FoodSpawnCall

SpecFood == InitFood /\ [][NextFood]_vars

-----------------------------------------------------------------------------
(* TimingSystem on its own, driven as its unit tests drive it: the rate is   *)
(* raised some number of times, then frames follow at that rate.             *)

\* 0.05, 0.1, 0.125, 0.3, 1.0 and 2.5 seconds
TimingFrameTimes ==
    {FDiv(FDyadic(1, 0), FDyadic(20, 0)), FDiv(FDyadic(1, 0), FDyadic(10, 0)),
     FDyadic(1, 3), FDiv(FDyadic(3, 0), FDyadic(10, 0)), FDyadic(1, 0),
     FDyadic(5, 1)}

\* timing.increase_speed()
IncreaseSpeedCall ==
    /\ speed_ups < MaxSpeedUps
    /\ frames = 0
    /\ ticks_per_second' = increase_speed(ticks_per_second)
    /\ speed_ups' = speed_ups + 1
    /\ UNCHANGED <<sceneVars, inputVars, snakeVars, foodVars, score,
                   tick_accumulator, elapsed_time, time_remaining, paused,
                   last_scored_second, time_played, appVars, frames>>

\* timing.toggle_pause()
TogglePauseCall ==
    /\ paused' = ~paused
    /\ UNCHANGED <<sceneVars, inputVars, snakeVars, foodVars, score,
                   ticks_per_second, tick_accumulator, elapsed_time,
                   time_remaining, last_scored_second, speed_ups, time_played,
                   appVars, frames>>

\* ticks = timing.update(dt); nothing processes the ticks, which add up in
\* ticks_left
TimingUpdateCall(dt) ==
    /\ frames < MaxFrames
    /\ LET upd == timing_update(tick_accumulator, elapsed_time,
                                ticks_per_second, dt, paused)
       IN  /\ tick_accumulator' = upd[1]
           /\ ticks_left' = ticks_left + upd[2]
           /\ elapsed_time' = upd[3]
    /\ frames' = IF paused THEN frames ELSE frames + 1
    /\ time_played' = IF paused THEN time_played
                                ELSE ExactAdd(time_played, dt)
    /\ UNCHANGED <<mode, walls, collision_result, end_reason, inputVars, snakeVars, foodVars,
                   score, ticks_per_second, time_remaining, paused,
                   last_scored_second, speed_ups, appVars>>

\* if timing.check_second_scored(): scoring.add_time_score()
CheckSecondScoredCall ==
    /\ LET scored == check_second_scored(elapsed_time, last_scored_second)
       IN  /\ last_scored_second' =
                 IF scored THEN FInt(elapsed_time) ELSE last_scored_second
           /\ score' = IF scored THEN add_time_score(score) ELSE score
    /\ UNCHANGED <<sceneVars, inputVars, snakeVars, foodVars,
                   ticks_per_second, tick_accumulator, elapsed_time,
                   time_remaining, paused, speed_ups, time_played, appVars,
                   frames>>

NextTiming ==
    \/ IncreaseSpeedCall
    \/ TogglePauseCall
    \/ \E dt \in TimingFrameTimes : TimingUpdateCall(dt)
    \/ CheckSecondScoredCall

SpecTiming == Init /\ [][NextTiming]_vars

-----------------------------------------------------------------------------
(* TimeAttack rounds with frame times that are not binary fractions; a frame  *)
(* of more than 2.5 seconds is explored where it uses up the remaining time. *)

\* 0.7, 1.0, 2.5, 119.3 and 120.0 seconds
TimedFrameTimes ==
    {FDiv(FDyadic(7, 0), FDyadic(10, 0)), FDyadic(1, 0), FDyadic(5, 1),
     FDiv(FDyadic(1193, 0), FDyadic(10, 0)), TIME_ATTACK_DURATION}

NextTimed ==
    \/ /\ current_scene # "play"
       /\ StartGame("time_attack")
    \/ /\ current_scene = "play"
       /\ \/ PauseKey
          \/ \E dt \in TimedFrameTimes :
                /\ \/ FLeq(dt, FDyadic(5, 1))
                   \/ FLeq(FSub(time_remaining, dt), FZero)
                /\ Update(dt)
          \/ ProcessTick

SpecTimed == Init /\ [][NextTimed]_vars

-----------------------------------------------------------------------------
(* check_collisions on its own: heads inside the grid, on its edges and     *)
(* outside it, bodies that hold the head or not, wall sets that hold it or  *)
(* not. The border_lethal flag is the one of the mode: classic has it off,  *)
(* boxed has it on.                                                         *)

CollideHeads ==
    {<<5, 5>>, <<0, 0>>, <<15, 13>>, <<7, 3>>,
     <<-1, 5>>, <<16, 5>>, <<5, -1>>, <<5, 14>>}

CollideBodies ==
    {<<>>, <<<<4, 5>>, <<3, 5>>>>, <<<<4, 5>>, <<5, 5>>>>,
     <<<<0, 5>>, <<1, 5>>>>, <<<<0, 5>>, <<-1, 5>>>>, <<<<16, 5>>>>,
     <<<<7, 3>>, <<7, 2>>, <<6, 2>>>>, <<<<5, 13>>, <<5, 14>>>>}

CollideWalls == {{}, {<<5, 5>>, <<6, 5>>}, MAP_1}

InitCollide ==
    /\ mode \in {"classic", "boxed"}
    /\ walls \in CollideWalls
    /\ collision_result = <<>>
    /\ end_reason = None
    /\ ticks_left = 0
    /\ pending_direction = None
    /\ current_direction = "RIGHT"
    /\ last_intent = None
    /\ sfx_turn = FALSE
    /\ \E head \in CollideHeads, bd \in CollideBodies : segments = <<head>> \o bd
    /\ direction = "RIGHT"
    /\ grow_pending = FALSE
    /\ snake_call = <<>>
    /\ food_position = <<0, 0>>
    /\ spawn_result = <<>>
    /\ animation_frame = 0
    /\ animation_timer = FZero
    /\ score = 0
    /\ ticks_per_second = INITIAL_TICKS_PER_SECOND
    /\ tick_accumulator = FZero
    /\ elapsed_time = FZero
    /\ time_remaining = TIME_ATTACK_DURATION
    /\ paused = FALSE
    /\ last_scored_second = 0
    /\ speed_ups = 0
    /\ time_played = FZero
    /\ current_scene = "main_menu"
    /\ maze_map_index = 0
    /\ scores = [m \in GameMode |-> <<>>]
    /\ table_calls = 0
    /\ table_call = <<>>
    /\ name_call = [name |-> <<>>, out |-> <<>>]
    /\ results = [mode |-> "classic", score |-> 0, reason |-> "SELF_COLLISION"]
    /\ frames = 0

\* check_collisions(head, body, border_lethal, walls)
CheckCollisionsCall ==
    /\ collision_result' =
          <<check_collisions(segments[1], body(segments),
                             get_mode_config(mode).border_lethal, walls)>>
    /\ UNCHANGED <<mode, walls, end_reason, ticks_left, inputVars, snakeVars,
                   foodVars, score, timingVars, appVars, frames>>

NextCollide == CheckCollisionsCall

SpecCollide == InitCollide /\ [][NextCollide]_vars

-----------------------------------------------------------------------------
(* PlayScene.start_game called on the scene as it is: before any round, in  *)
(* a round that is running or paused, after one has ended. The layout       *)
(* index is the application's, or that index taken a full turn further.     *)

\* play_scene.start_game(m, maze_index)
RestartCall ==
    /\ ticks_left = 0
    /\ \E m \in GameMode :
          \E maze_index \in {maze_map_index, maze_map_index + Len(ALL_MAPS)} :
             PlayStartGame(m, maze_index)
    /\ UNCHANGED <<ticks_left, appVars, frames>>

NextRestart ==
    \/ /\ current_scene # "play"
       /\ \E m \in GameMode : StartGame(m)
    \/ /\ current_scene = "play"
       /\ \/ PauseKey
          \/ \E dt \in FrameTimesOf(mode) : Update(dt)
          \/ ProcessTick
    \/ RestartCall

SpecRestart == Init /\ [][NextRestart]_vars

-----------------------------------------------------------------------------
(* The high score table on its own: add_score and from_dict in any order.   *)

\* A dict of a high score file; absent keys are <<>>.
FileEntry(name, sc, ts) ==
    [is_dict |-> TRUE, name |-> name, score |-> sc, ts |-> ts]

\* An item of a list that is not a dict
NotADict == [is_dict |-> FALSE, name |-> <<>>, score |-> <<>>, ts |-> <<>>]

\* "BOB" with the score sc, stamped at second t
Bob(sc, t) == FileEntry(<<<<66, 79, 66>>>>, <<sc>>, <<strftime(t)>>)

\* What json.load gives for a high score file: a table that is full and in
\* order; one with twelve entries out of order, among them ties, a negative
\* score, absent keys, an empty stamp and an item that is no dict, next to a
\* mode that is no list and a mode with nine entries; one without any mode.
HighScoreFiles ==
    <<[m \in {"classic"} |->
          [is_list |-> TRUE,
           items |-> <<Bob(50, 9), Bob(40, 9), Bob(40, 10), Bob(30, 9),
                       Bob(30, 9), Bob(20, 9), Bob(20, 10), Bob(20, 10),
                       Bob(10, 9), Bob(10, 10)>>]],
      [m \in {"classic", "maze", "boxed"} |->
          CASE m = "classic" ->
                 [is_list |-> TRUE,
                  items |-> <<Bob(10, 10), Bob(50, 10), NotADict, Bob(50, 9),
                              Bob(-5, 9), FileEntry(<<>>, <<>>, <<>>),
                              Bob(20, 10), Bob(20, 9), Bob(30, 9),
                              FileEntry(<<<<97, 33, 90>>>>, <<20>>, <<<<>>>>),
                              Bob(40, 9), Bob(10, 9), Bob(20, 9)>>]
            [] m = "maze" -> [is_list |-> FALSE, items |-> <<>>]
            [] m = "boxed" ->
                 [is_list |-> TRUE,
                  items |-> [i \in 1..9 |-> Bob(20, 9 + (i % 2))]]],
      [m \in {} |-> [is_list |-> FALSE, items |-> <<>>]]>>

\* The modes, names, scores and clock readings of the explored calls:
\* "BOB" and "a!Z"; seconds 9 and 10 of a minute
TableModes == {"classic", "boxed"}
TableNames == {<<66, 79, 66>>, <<97, 33, 90>>}
TableScores == {10, 20, 50}
TableClock == {9, 10}

\* The record of a call
TableCall(op, m, name, sc, now, file, ok) ==
    <<[op |-> op, mode |-> m, name |-> name, score |-> sc, now |-> now,
       file |-> file, ok |-> ok]>>

\* highscores.add_score(mode, name, score)
AddScoreCall ==
    /\ table_calls < MaxTableCalls
    /\ \E m \in TableModes, name \in TableNames, sc \in TableScores,
          now \in TableClock :
          LET out == add_score(scores, m, name, sc, now)
          IN  /\ scores' = out.scores
              /\ table_call' = TableCall("add_score", m, name, sc, now, 0, out.ok)
    /\ table_calls' = table_calls + 1
    /\ UNCHANGED <<sceneVars, inputVars, snakeVars, foodVars, score,
                   timingVars, current_scene, maze_map_index, results,
                   name_call, frames>>

\* highscores.from_dict(data)
FromDictCall ==
    /\ table_calls < MaxTableCalls
    /\ \E file \in 1..Len(HighScoreFiles), now \in TableClock :
          /\ scores' = from_dict(scores, HighScoreFiles[file], now)
          /\ table_call' = TableCall("from_dict", "classic", <<>>, 0, now, file, TRUE)
    /\ table_calls' = table_calls + 1
    /\ UNCHANGED <<sceneVars, inputVars, snakeVars, foodVars, score,
                   timingVars, current_scene, maze_map_index, results,
                   name_call, frames>>

NextScores == AddScoreCall \/ FromDictCall

SpecScores == Init /\ [][NextScores]_vars

-----------------------------------------------------------------------------
(* _validate_name on its own, on names of up to MaxNameLength characters.   *)

\* A, Z, 0, 9, a, z, !, space and the sharp s
NameChars == {65, 90, 48, 57, 97, 122, 33, 32, 223}

NameInputs ==
    UNION {[1..n -> NameChars] : n \in 0..MaxNameLength}

InitName ==
    /\ mode = "classic"
    /\ walls = {}
    /\ collision_result = <<>>
    /\ end_reason = None
    /\ ticks_left = 0
    /\ pending_direction = None
    /\ current_direction = "RIGHT"
    /\ last_intent = None
    /\ sfx_turn = FALSE
    /\ segments = <<>>
    /\ direction = "RIGHT"
    /\ grow_pending = FALSE
    /\ snake_call = <<>>
    /\ food_position = <<0, 0>>
    /\ spawn_result = <<>>
    /\ animation_frame = 0
    /\ animation_timer = FZero
    /\ score = 0
    /\ ticks_per_second = INITIAL_TICKS_PER_SECOND
    /\ tick_accumulator = FZero
    /\ elapsed_time = FZero
    /\ time_remaining = TIME_ATTACK_DURATION
    /\ paused = FALSE
    /\ last_scored_second = 0
    /\ speed_ups = 0
    /\ time_played = FZero
    /\ current_scene = "main_menu"
    /\ maze_map_index = 0
    /\ results = [mode |-> "classic", score |-> 0, reason |-> "SELF_COLLISION"]
    /\ scores = [m \in GameMode |-> <<>>]
    /\ table_calls = 0
    /\ table_call = <<>>
    /\ \E name \in NameInputs : name_call = [name |-> name, out |-> <<>>]
    /\ frames = 0

\* _validate_name(name)
ValidateNameCall ==
    /\ name_call.out = <<>>
    /\ name_call' = [name_call EXCEPT !.out = <<_validate_name(name_call.name)>>]
    /\ UNCHANGED <<sceneVars, inputVars, snakeVars, foodVars, score,
                   timingVars, current_scene, maze_map_index, results,
                   scores, table_calls, table_call, frames>>

\* _validate_name(sanitized), sanitized being what the call before returned
ValidateAgainCall ==
    /\ name_call.out # <<>>
    /\ name_call' = [name |-> name_call.out[1],
                     out |-> <<_validate_name(name_call.out[1])>>]
    /\ UNCHANGED <<sceneVars, inputVars, snakeVars, foodVars, score,
                   timingVars, current_scene, maze_map_index, results,
                   scores, table_calls, table_call, frames>>

NextName == ValidateNameCall \/ ValidateAgainCall

SpecName == InitName /\ [][NextName]_vars

-----------------------------------------------------------------------------
(* A Snake driven alone, the way its unit tests drive it: grow, move and    *)
(* get_next_head called in any order on a snake placed on the grid.         *)

\* Snakes as a round leaves them: the start position, a head on each border
\* heading out of the grid, a bent snake in the corner, a snake of one cell.
SnakeSamples ==
    {[segments |-> SnakeReset, direction |-> "RIGHT"],
     [segments |-> SnakeReset, direction |-> "UP"],
     [segments |-> <<<<0, 5>>, <<1, 5>>, <<2, 5>>>>, direction |-> "LEFT"],
     [segments |-> <<<<15, 5>>, <<14, 5>>, <<13, 5>>>>, direction |-> "RIGHT"],
     [segments |-> <<<<5, 0>>, <<5, 1>>, <<5, 2>>>>, direction |-> "UP"],
     [segments |-> <<<<5, 13>>, <<5, 12>>, <<5, 11>>>>, direction |-> "DOWN"],
     [segments |-> <<<<0, 0>>, <<1, 0>>, <<1, 1>>, <<2, 1>>>>, direction |-> "LEFT"],
     [segments |-> <<<<0, 0>>, <<1, 0>>, <<1, 1>>, <<2, 1>>>>, direction |-> "UP"],
     [segments |-> <<<<15, 13>>, <<15, 12>>, <<14, 12>>>>, direction |-> "DOWN"],
     [segments |-> <<<<8, 8>>>>, direction |-> "DOWN"]}

InitSnake ==
    /\ mode = "classic"
    /\ walls = {}
    /\ collision_result = <<>>
    /\ end_reason = None
    /\ ticks_left = 0
    /\ pending_direction = None
    /\ current_direction = "RIGHT"
    /\ last_intent = None
    /\ sfx_turn = FALSE
    /\ \E snake \in SnakeSamples :
          /\ segments = snake.segments
          /\ direction = snake.direction
    /\ grow_pending = FALSE
    /\ snake_call = <<>>
    /\ food_position = <<0, 0>>
    /\ spawn_result = <<>>
    /\ animation_frame = 0
    /\ animation_timer = FZero
    /\ score = 0
    /\ ticks_per_second = INITIAL_TICKS_PER_SECOND
    /\ tick_accumulator = FZero
    /\ elapsed_time = FZero
    /\ time_remaining = TIME_ATTACK_DURATION
    /\ paused = FALSE
    /\ last_scored_second = 0
    /\ speed_ups = 0
    /\ time_played = FZero
    /\ current_scene = "main_menu"
    /\ maze_map_index = 0
    /\ scores = [m \in GameMode |-> <<>>]
    /\ table_calls = 0
    /\ table_call = <<>>
    /\ name_call = [name |-> <<>>, out |-> <<>>]
    /\ results = [mode |-> "classic", score |-> 0, reason |-> "SELF_COLLISION"]
    /\ frames = 0

\* The number of calls made on the snake so far
SnakeCalls == IF snake_call = <<>> THEN 0 ELSE snake_call[1].n

SnakeCall(op, wrap, out) ==
    /\ SnakeCalls < MaxSnakeCalls
    /\ snake_call' = <<[n |-> SnakeCalls + 1, op |-> op, wrap |-> wrap,
                        out |-> out]>>
    /\ UNCHANGED <<sceneVars, inputVars, foodVars, score, timingVars, appVars,
                   frames>>

\* snake.grow()
GrowCall ==
    /\ SnakeCall("grow", FALSE, <<>>)
    /\ grow_pending' = TRUE
    /\ UNCHANGED <<segments, direction>>

\* snake.move(wrap)
MoveCall ==
    \E wrap \in BOOLEAN :
       LET moved == move(segments, direction, grow_pending, wrap)
       IN  /\ SnakeCall("move", wrap, <<moved[1]>>)
           /\ segments' = moved
           /\ grow_pending' = FALSE
           /\ UNCHANGED direction

\* snake.get_next_head(wrap)
GetNextHeadCall ==
    \E wrap \in BOOLEAN :
       /\ SnakeCall("get_next_head", wrap,
                    <<get_next_head(segments, direction, wrap)>>)
       /\ UNCHANGED <<segments, direction, grow_pending>>

\* snake.get_segment_directions()
GetSegmentDirectionsCall ==
    /\ SnakeCall("get_segment_directions", FALSE,
                 <<get_segment_directions(segments)>>)
    /\ UNCHANGED <<segments, direction, grow_pending>>

NextSnake ==
    GrowCall \/ MoveCall \/ GetNextHeadCall \/ GetSegmentDirectionsCall

SpecSnake == InitSnake /\ [][NextSnake]_vars

-----------------------------------------------------------------------------
(* A Food driven alone, the way its unit tests drive it: update_animation   *)
(* called on a new Food with the pause flag on or off.                      *)

\* 1/16, 1/8, 1/4, 1/2 and 1 second
AnimationFrameTimes ==
    {FDyadic(1, 4), FDyadic(1, 3), FDyadic(1, 2), FDyadic(1, 1), FDyadic(1, 0)}

\* food.update_animation(dt, paused)
UpdateAnimationCall(dt) ==
    /\ frames < MaxAnimationCalls
    /\ LET anim == update_animation(animation_frame, animation_timer, dt,
                                    paused)
       IN  /\ animation_frame' = anim[1]
           /\ animation_timer' = anim[2]
    /\ frames' = IF paused THEN frames ELSE frames + 1
    /\ time_played' = IF paused THEN time_played
                                ELSE ExactAdd(time_played, dt)
    /\ UNCHANGED <<sceneVars, inputVars, snakeVars, food_position,
                   spawn_result, score, ticks_per_second, tick_accumulator,
                   elapsed_time, time_remaining, paused, last_scored_second,
                   speed_ups, appVars>>

NextAnimation ==
    \/ TogglePauseCall
    \/ \E dt \in AnimationFrameTimes : UpdateAnimationCall(dt)

SpecAnimation == Init /\ [][NextAnimation]_vars

-----------------------------------------------------------------------------
(* A round in which the snake, four segments long after its first food, has  *)
(* curled up on a square of four cells: the head, heading left, has the     *)
(* tail in the cell below it. Either the last tick was an ordinary move, or *)
(* it ate the second food, so that growth is pending.                       *)

ChaseSnake == <<<<5, 5>>, <<6, 5>>, <<6, 6>>, <<5, 6>>>>

InitChase ==
    /\ mode \in {"classic", "boxed"}
    /\ walls = {}
    /\ collision_result = <<None>>
    /\ end_reason = None
    /\ ticks_left = 0
    /\ pending_direction = None
    /\ current_direction = "LEFT"
    /\ last_intent = None
    /\ sfx_turn = TRUE
    /\ segments = ChaseSnake
    /\ direction = "LEFT"
    /\ grow_pending \in BOOLEAN
    /\ snake_call = <<>>
    /\ food_position = <<10, 10>>
    /\ spawn_result = <<TRUE>>
    /\ animation_frame = 0
    /\ animation_timer = FZero
    /\ score = (IF grow_pending THEN 2 ELSE 1) * SCORE_PER_FOOD
    /\ ticks_per_second = (IF grow_pending THEN FDyadic(34, 2) ELSE FDyadic(33, 2))
    /\ tick_accumulator = FZero
    /\ elapsed_time = FDyadic(2, 0)
    /\ time_remaining = FZero
    /\ paused = FALSE
    /\ last_scored_second = 0
    /\ speed_ups = (IF grow_pending THEN 2 ELSE 1)
    /\ time_played = FDyadic(2, 0)
    /\ current_scene = "play"
    /\ maze_map_index = 0
    /\ scores = [m \in GameMode |-> <<>>]
    /\ table_calls = 0
    /\ table_call = <<>>
    /\ name_call = [name |-> <<>>, out |-> <<>>]
    /\ results = [mode |-> "classic", score |-> 0, reason |-> "SELF_COLLISION"]
    /\ frames = 0

SpecChase == InitChase /\ [][Next]_vars

-----------------------------------------------------------------------------
(* Rounds with frames that leave the accumulator just short of a tick, and  *)
(* frames in which no time has passed.                                      *)

\* 0, 1/8 and 127/512 (about 0.248) seconds
PaceFrameTimes == {FZero, FDyadic(1, 3), FDyadic(127, 9)}

NextPace ==
    \/ /\ current_scene # "play"
       /\ \E m \in GameMode : StartGame(m)
    \/ /\ current_scene = "play"
       /\ \/ \E dt \in PaceFrameTimes : Update(dt)
          \/ ProcessTick

SpecPace == Init /\ [][NextPace]_vars

-----------------------------------------------------------------------------
\* A host that keeps driving the play scene after it has left it.
HostCall ==
    /\ current_scene # "play"
    /\ Len(segments) > 0
    /\ \/ \E d \in Direction : KeyDown(d)
       \/ PauseKey
       \/ \E dt \in FrameTimesOf(mode) : Update(dt)
       \/ ProcessTick

NextHost == Next \/ HostCall

SpecHost == Init /\ [][NextHost]_vars

-----------------------------------------------------------------------------
(* Properties *)

Cells == {<<x, y>> : x \in 0..(GRID_WIDTH - 1), y \in 0..(GRID_HEIGHT - 1)}

\* A step taken while ticks are due is one tick of the frame.
InTick == ticks_left > 0

\* The end reasons the head of the moved snake calls for, read off the state
\* after the move.
HeadCollisions(segs, m, ws) ==
    LET h == segs[1]
    IN  (IF \E i \in 2..Len(segs) : segs[i] = h
         THEN {"SELF_COLLISION"} ELSE {})
        \cup
        (IF m \in {"boxed", "maze"} /\ h \notin Cells
         THEN {"WALL_COLLISION"} ELSE {})
        \cup
        (IF m = "maze" /\ h \in ws THEN {"WALL_COLLISION"} ELSE {})

\* C1: once a round has ended, no later update of the play scene changes
\* the snake, the food position, the score, the speed, the timers or the
\* end reason, until start_game resets the round.
C1_EndedIsInert ==
    [][(end_reason # None /\ end_reason' # None) =>
          UNCHANGED <<segments, food_position, score, ticks_per_second,
                      tick_accumulator, elapsed_time, time_remaining,
                      end_reason>>]_vars

\* C2: the ticks of a frame are processed one after another, and the tick
\* that sets an end reason is the last one of its frame: no tick is left, and
\* the snake moves in ticks only.
C2_StopAtEnd ==
    [][/\ (InTick /\ end_reason' = None) => ticks_left' = ticks_left - 1
       /\ (InTick /\ end_reason' # None) => ticks_left' = 0
       /\ (segments' # segments /\ end_reason' # None) => InTick]_vars

\* C2 witness: a Boxed round ended on the border by the seventh of the eight
\* ticks of the session's only frame.
C2_Witness ==
    /\ mode = "boxed"
    /\ end_reason = "WALL_COLLISION"
    /\ frames = 1
    /\ elapsed_time = FDyadic(1, 0)
    /\ segments[1] = <<3, 14>>
    /\ ticks_left = 0

\* C3: a tick whose new head collides (with the body, a lethal border or a
\* wall tile) ends the round with that reason and eats nothing: score, speed
\* and food position stay and no growth is pending.
C3_CollisionEndsTick ==
    [][(InTick /\ HeadCollisions(segments', mode, walls) # {}) =>
          /\ end_reason' \in HeadCollisions(segments', mode, walls)
          /\ results' = [mode |-> mode, score |-> score, reason |-> end_reason']
          /\ score' = score
          /\ ticks_per_second' = ticks_per_second
          /\ food_position' = food_position
          /\ grow_pending' = FALSE]_vars

\* C3 witness: the long snake has run into its own body.
C3_Witness ==
    /\ end_reason = "SELF_COLLISION"
    /\ Len(segments) >= GRID_WIDTH * GRID_HEIGHT - 1
    /\ \E i \in 2..Len(segments) : segments[i] = segments[1]
    /\ score = 220 * SCORE_PER_FOOD

\* The cells free of snake and walls
FreeCells(segs, ws) == Cells \ ({segs[i] : i \in 1..Len(segs)} \cup ws)

\* A tick in which the new head collides with nothing
CleanTick == InTick /\ HeadCollisions(segments', mode, walls) = {}

\* What a tick that eats does to growth flag, score and speed
EatEffects ==
    /\ grow_pending' = TRUE
    /\ score' = score + 10
    /\ ticks_per_second' =
          IF FGeq(FAdd(ticks_per_second, FDyadic(1, 2)), FDyadic(14, 0))
          THEN FDyadic(14, 0) ELSE FAdd(ticks_per_second, FDyadic(1, 2))

\* C4 as stated: on a tick with no collision whose new head is on the food,
\* growth becomes pending, the score rises by 10, the speed becomes
\* min(old + 0.25, 14.0) and the food is respawned on a cell free of snake
\* and walls; on one whose new head is elsewhere, score, speed, growth flag
\* and food position are unchanged.
C4_Original ==
    [][CleanTick =>
          IF segments'[1] = food_position
          THEN /\ EatEffects
               /\ food_position' \in FreeCells(segments', walls)
          ELSE UNCHANGED <<score, ticks_per_second, grow_pending,
                           food_position>>]_vars

\* C4 amended: the food is respawned on a free cell when there is one,
\* otherwise it stays where it is and the round ends with Victory; on a tick
\* that eats nothing, score, speed and food position are unchanged and no
\* growth is pending afterwards (the move has consumed a pending one).
C4_FoodStep ==
    [][CleanTick =>
          IF segments'[1] = food_position
          THEN /\ EatEffects
               /\ IF FreeCells(segments', walls) # {}
                  THEN /\ food_position' \in FreeCells(segments', walls)
                       /\ end_reason' = end_reason
                  ELSE /\ food_position' = food_position
                       /\ end_reason' = "VICTORY"
          ELSE /\ UNCHANGED <<score, ticks_per_second, food_position>>
               /\ grow_pending' = FALSE]_vars

\* C4 witness: the long snake, already at the top speed, has eaten and the
\* food is back on the one free cell.
C4_Witness ==
    /\ end_reason = None
    /\ grow_pending
    /\ score = 221 * SCORE_PER_FOOD
    /\ ticks_per_second = FDyadic(14, 0)
    /\ FreeCells(segments, walls) = {food_position}

\* The first tick of a Classic round that keeps heading Right
FirstClassicTick ==
    /\ InTick
    /\ mode = "classic"
    /\ segments = <<<<3, 7>>, <<2, 7>>, <<1, 7>>>>
    /\ current_direction = "RIGHT"
    /\ pending_direction \notin {"UP", "DOWN"}
    /\ ~grow_pending
    /\ score = 0
    /\ ticks_per_second = FDyadic(8, 0)

\* C5 as stated: with the food on (4,7) the first tick of a Classic round
\* leaves score 10, length 4 and speed 8.25; with the food elsewhere it
\* moves the head to (4,7) and the length stays 3.
C5_Original ==
    [][FirstClassicTick =>
          IF food_position = <<4, 7>>
          THEN /\ score' = 10
               /\ Len(segments') = 4
               /\ ticks_per_second' = FDyadic(33, 2)
          ELSE /\ segments'[1] = <<4, 7>>
               /\ Len(segments') = 3]_vars

\* C5 amended: right after that tick the length is still 3 and the growth is
\* pending; the tick after it makes the length 4.
C5_FirstTick ==
    [][/\ FirstClassicTick =>
             /\ segments'[1] = <<4, 7>>
             /\ Len(segments') = 3
             /\ IF food_position = <<4, 7>>
                THEN /\ score' = 10
                     /\ grow_pending'
                     /\ ticks_per_second' = FDyadic(33, 2)
                ELSE /\ score' = 0
                     /\ ~grow_pending'
                     /\ ticks_per_second' = FDyadic(8, 0)
       /\ (InTick /\ mode = "classic" /\ score = 10 /\ grow_pending
              /\ Len(segments) = 3) => Len(segments') = 4]_vars

\* C5 witness: the second tick of the round has made the snake 4 long.
C5_Witness ==
    /\ mode = "classic"
    /\ Len(segments) = 4
    /\ segments[4] = <<2, 7>>
    /\ score = 10
    /\ elapsed_time = FDyadic(1, 2)
    /\ ticks_left = 0

\* A round is running: it was started and has not ended.
RoundRunning == Len(segments) > 0 /\ end_reason = None

\* C6: while a round is running the food is on a cell of the grid that no
\* snake segment occupies and, in Maze mode, that is no wall tile.
C6_FoodOnFreeCell ==
    RoundRunning =>
        /\ food_position \in Cells
        /\ \A i \in 1..Len(segments) : segments[i] # food_position
        /\ mode = "maze" => food_position \notin walls

\* C6 witness: a running Maze round in which the food was eaten and respawned.
C6_Witness ==
    /\ RoundRunning
    /\ mode = "maze"
    /\ score = 10
    /\ grow_pending
    /\ food_position # segments[1]

\* C7: Food.spawn returns false, leaving the position, exactly when snake and
\* walls cover the grid; otherwise it returns true with the position on a
\* free cell, and every free cell is among the positions it chooses from.
C7_Spawn ==
    [][/\ FreeCells(segments, walls) \subseteq valid_positions(segments, walls)
       /\ Cardinality(FreeCells(segments, walls)) <= MaxDraws =>
             \A c \in FreeCells(segments, walls) :
                [ok |-> TRUE, position |-> c]
                    \in spawn(segments, walls, food_position)
       /\ FoodSpawnCall =>
             IF FreeCells(segments, walls) = {}
             THEN spawn_result' = <<FALSE>> /\ food_position' = food_position
             ELSE spawn_result' = <<TRUE>>
                  /\ food_position' \in FreeCells(segments, walls)]_vars

\* C7 witness: the spawn has failed on a board that snake and walls fill
\* together.
C7_Witness ==
    /\ spawn_result = <<FALSE>>
    /\ walls # {}
    /\ Len(segments) < GRID_WIDTH * GRID_HEIGHT
    /\ food_position = <<4, 7>>

\* C8: the round ends with Victory exactly on a tick that eats the food while
\* snake and walls cover the whole grid, and Victory is never the end reason
\* while a cell is free.
C8_Victory ==
    [][/\ (end_reason' = "VICTORY" /\ end_reason # "VICTORY") =>
             /\ InTick
             /\ segments'[1] = food_position
             /\ score' = score + 10
       /\ (InTick /\ score' = score + 10
              /\ FreeCells(segments', walls) = {}) => end_reason' = "VICTORY"
       /\ end_reason' = "VICTORY" => FreeCells(segments', walls') = {}]_vars

\* C8 witness: the snake fills the grid and the round has ended with Victory.
C8_Witness ==
    /\ end_reason = "VICTORY"
    /\ Len(segments) = GRID_WIDTH * GRID_HEIGHT
    /\ score = 222 * SCORE_PER_FOOD
    /\ results.reason = "VICTORY"

\* C9: the direction a tick commits is never the opposite of the one the
\* tick before it committed: an opposite pending direction is dropped, the
\* pending direction is cleared and the current one stays.
C9_NoReversal ==
    [][InTick =>
          /\ current_direction' # OPPOSITE_DIRECTIONS(current_direction)
          /\ direction' = current_direction'
          /\ pending_direction = OPPOSITE_DIRECTIONS(current_direction) =>
                /\ current_direction' = current_direction
                /\ pending_direction' = None]_vars

\* C9 witness: a tick is due while the pending direction is the opposite of
\* the one an earlier tick committed.
C9_Witness ==
    /\ InTick
    /\ frames = 2
    /\ current_direction = "UP"
    /\ pending_direction = "DOWN"

\* C10: the pending direction is the latest intent that arrived since the
\* last commit (earlier ones are overwritten), a commit takes the pending
\* direction or keeps the current one and leaves nothing pending, and a tick
\* with nothing pending keeps the direction.
C10_LastIntentWins ==
    [][/\ pending_direction' = last_intent'
       /\ InTick =>
             /\ pending_direction' = None
             /\ current_direction' \in {current_direction, pending_direction}
             /\ pending_direction = None =>
                   current_direction' = current_direction]_vars

\* C10 witness: the first tick of a frame has committed a turn and the later
\* ticks of the same frame, still due, find nothing pending.
C10_Witness ==
    /\ InTick
    /\ frames = 1
    /\ current_direction = "UP"
    /\ pending_direction = None
    /\ segments[1] = <<3, 5>>

\* C11: direction_changed_on_tick answers true exactly when the commit that
\* follows it changes current_direction, that is when a direction is pending
\* that is neither the current one nor its opposite, and a tick plays the
\* turn sound exactly in that case; the query itself changes nothing, the
\* commit works on the same current and pending direction.
C11_WouldChange ==
    [][/\ \A c \in Direction, p \in Direction \cup {None} :
             direction_changed_on_tick(c, p)
                 <=> apply_pending_direction(c, p)[1] # c
       /\ InTick =>
             /\ sfx_turn' <=> current_direction' # current_direction
             /\ sfx_turn' <=>
                   /\ pending_direction # None
                   /\ pending_direction # OPPOSITE_DIRECTIONS(current_direction)
                   /\ pending_direction # current_direction
             /\ current_direction' \in {current_direction, pending_direction}
             /\ pending_direction' = None]_vars

\* C11 witness: the first tick of a frame has turned the snake upwards and
\* played the turn sound; more ticks of that frame are due.
C11_Witness ==
    /\ InTick
    /\ sfx_turn
    /\ frames = 1
    /\ current_direction = "UP"
    /\ segments[1] = <<3, 6>>

\* C12: no step taken while the round is paused, a direction key least of
\* all, changes the pending or the current direction, so the pending
\* direction the pause began with is the one the round is unpaused with; the
\* first tick after that commits the direction then pending (the same one
\* unless a key pressed after unpausing has replaced it), an opposite one
\* excepted.
C12_PausedKeyIgnored ==
    [][/\ (paused /\ current_scene = "play") =>
             UNCHANGED <<pending_direction, current_direction, direction,
                         last_intent>>
       /\ (InTick /\ pending_direction # None
              /\ pending_direction # OPPOSITE_DIRECTIONS(current_direction)) =>
             /\ current_direction' = pending_direction
             /\ direction' = pending_direction]_vars

\* C12 witness: a running round is paused with a turn pending that no tick
\* has committed yet.
C12_Witness ==
    /\ paused
    /\ current_scene = "play"
    /\ end_reason = None
    /\ frames = 1
    /\ pending_direction = "UP"
    /\ current_direction = "RIGHT"
    /\ segments[1] = <<3, 7>>

\* C13: while the round is paused no step of the play scene, an update with
\* any frame time included, changes the snake, the food position, the food
\* animation, the score, the tick accumulator, the elapsed or the remaining
\* time, the speed or the end reason; the pause key is the only thing that
\* changes the round, and it changes the paused flag alone, so that pressing
\* it twice restores the state.
C13_PausedFrozen ==
    [][/\ (paused /\ current_scene = "play") =>
             UNCHANGED <<mode, walls, end_reason, ticks_left, inputVars,
                         snakeVars, foodVars, score, ticks_per_second,
                         tick_accumulator, elapsed_time, time_remaining,
                         last_scored_second, maze_map_index, results>>
       /\ (paused' # paused /\ current_scene = "play") =>
             UNCHANGED <<sceneVars, inputVars, snakeVars, foodVars, score,
                         ticks_per_second, tick_accumulator, elapsed_time,
                         time_remaining, last_scored_second, appVars>>]_vars

\* C13 witness: a TimeAttack round paused right after its first full second,
\* whose point the next running frame is to add.
C13_Witness ==
    /\ paused
    /\ current_scene = "play"
    /\ mode = "time_attack"
    /\ end_reason = None
    /\ elapsed_time = FDyadic(1, 0)
    /\ time_remaining = FDyadic(119, 0)
    /\ last_scored_second = 0
    /\ score = 0

\* C14: once the round has ended, a pause key delivered to the play scene
\* leaves the paused flag as it is.
C14_EndedPauseInert ==
    [][(end_reason # None /\ end_reason' # None) => paused' = paused]_vars

\* An unpaused call of update: FrameTime is its dt, Due the exact a + dt,
\* Returned the tick count it returns.
TimingStep == frames' = frames + 1
FrameTime == MagSub(Mag(time_played'), Mag(time_played))
Due == MagAdd(Mag(tick_accumulator), FrameTime)
Returned == ticks_left' - ticks_left

\* 4 * r for a rate r
Quarters(tps) == tps[2] \div 1024

\* floor(m * r) for an exact time m and a rate r
FloorRate(m, tps) == MagTimes(m, Quarters(tps))[1] \div 16384

\* C15 as stated: an unpaused update(dt) at rate r with accumulator a
\* returns floor((a + dt) * r) ticks and leaves a + dt - n/r, which is at
\* least 0 and less than 1/r, and the ticks returned over the frames of a
\* session at constant rate add up to floor(total time * r).
C15_Original ==
    [][TimingStep =>
          /\ Returned = FloorRate(Due, ticks_per_second)
          /\ MagTimes(Mag(tick_accumulator'), Quarters(ticks_per_second))
                = MagSub(MagTimes(Due, Quarters(ticks_per_second)),
                         <<16384 * Returned, 0, 0>>)
          /\ ticks_left' = FloorRate(Mag(time_played'), ticks_per_second)]_vars

\* C15 amended: update returns the number of times the interval 1/r, a
\* float, can be taken from the float a + dt, and leaves an accumulator that
\* is at least 0 and less than 1/r. The count is floor((a + dt) * r) to
\* within one tick either way, and so is the total over the frames of a
\* session; at r = 8.0, whose interval 0.125 is exact, both are equal to the
\* floor for the frame times 0.05, 0.1, 0.125, 0.3, 1.0 and 2.5 (0.1 then
\* 0.05 gives 0 then 1 tick, 0.3 gives 2).
C15_Accumulator ==
    [][TimingStep =>
          /\ ~tick_accumulator'[1]
          /\ ~FGeq(tick_accumulator', get_tick_interval(ticks_per_second))
          /\ Returned - FloorRate(Due, ticks_per_second) \in {-1, 0, 1}
          /\ ticks_left' - FloorRate(Mag(time_played'), ticks_per_second)
                \in {-1, 0, 1}
          /\ speed_ups = 0 =>
                /\ Returned = FloorRate(Due, ticks_per_second)
                /\ ticks_left' = FloorRate(Mag(time_played'), ticks_per_second)]_vars

\* C15 witness: at 12 ticks per second a frame of one second has returned 11
\* ticks, the twelfth interval being just short in the accumulator.
C15_Witness ==
    /\ speed_ups = 16
    /\ ticks_per_second = FDyadic(12, 0)
    /\ frames = 1
    /\ time_played = FDyadic(1, 0)
    /\ ticks_left = 11
    /\ tick_accumulator # FZero

\* C16: after k calls of increase_speed since the reset, ticks_per_second is
\* min(8.0 + 0.25 * k, 14.0), computed here in quarters as min(32 + k, 56) / 4:
\* exactly 14.0 at k = 24 and from then on, and never below 8.0 or above 14.0.
C16_SpeedRamp ==
    /\ ticks_per_second =
          FDyadic(IF 32 + speed_ups < 56 THEN 32 + speed_ups ELSE 56, 2)
    /\ speed_ups >= 24 => ticks_per_second = FDyadic(14, 0)
    /\ FGeq(ticks_per_second, FDyadic(8, 0))
    /\ FLeq(ticks_per_second, FDyadic(14, 0))

\* C16 witness: the 25th call has left the rate on the cap.
C16_Witness ==
    /\ speed_ups = 25
    /\ ticks_per_second = FDyadic(14, 0)
    /\ frames = 0

\* An unpaused frame of a TimeAttack round that has not ended
TimedFrame == mode = "time_attack" /\ end_reason = None /\ frames' = frames + 1

\* What the frame that ends the round with TimeUp leaves alone: no point for
\* a second is added and no tick is processed.
TimeUpFrame ==
    /\ ticks_left' = 0
    /\ UNCHANGED <<score, last_scored_second, elapsed_time, tick_accumulator,
                   snakeVars, food_position>>
    /\ results' = [mode |-> mode, score |-> score, reason |-> "TIME_UP"]

\* C17 as stated: a TimeAttack round that has not ended ends with TimeUp on
\* the first unpaused frame at which the frame times since the start add up
\* to 120 seconds or more, and that frame adds no point and processes no tick.
C17_Original ==
    [][/\ TimedFrame =>
             /\ end_reason' = "TIME_UP"
                   <=> ~MagLess(Mag(time_played'), Mag(TIME_ATTACK_DURATION))
             /\ end_reason' = "TIME_UP" => TimeUpFrame
       /\ (end_reason' = "TIME_UP" /\ end_reason # "TIME_UP") => TimedFrame]_vars

\* C17 amended: the round ends with TimeUp on the first unpaused frame at
\* which time_remaining, 120.0 less each frame time in turn in floating
\* point, is 0 or less; the exact sum of the frame times is then 120 seconds
\* to within the rounding of those subtractions (here: a nanosecond) or more.
C17_TimeUp ==
    [][/\ TimedFrame =>
             /\ time_remaining' = FSub(time_remaining, FMake(FALSE, FrameTime))
             /\ end_reason' = "TIME_UP" <=> FLeq(time_remaining', FZero)
             /\ end_reason' = "TIME_UP" =>
                   /\ TimeUpFrame
                   /\ FGeq(ExactAdd(time_played', FDyadic(1, 30)),
                           TIME_ATTACK_DURATION)
             /\ end_reason' # "TIME_UP" =>
                   /\ end_reason' = None
                   /\ FLeq(time_played',
                           ExactAdd(TIME_ATTACK_DURATION, FDyadic(1, 30)))
       /\ (end_reason' = "TIME_UP" /\ end_reason # "TIME_UP") => TimedFrame]_vars

\* C17 witness: frames of 0.7 and 119.3 seconds have ended the round with
\* TimeUp although the two floats add up to a little less than 120.
C17_Witness ==
    /\ mode = "time_attack"
    /\ end_reason = "TIME_UP"
    /\ frames = 2
    /\ time_remaining = FZero
    /\ MagLess(Mag(time_played), Mag(TIME_ATTACK_DURATION))
    /\ elapsed_time = FDiv(FDyadic(7, 0), FDyadic(10, 0))
    /\ score = 0

\* The points a TimeAttack round has earned from time: a food is worth
\* SCORE_PER_FOOD and fewer seconds than that are scored within MaxFrames.
TimePoints == score % SCORE_PER_FOOD

\* C18: on a TimeAttack frame that does not end the round, check_second_scored
\* is true exactly when floor(elapsed_time) > last_scored_second and then
\* sets last_scored_second to floor(elapsed_time), so that a second call
\* with no time elapsed would be false and a jump over several seconds gives
\* one point; a frame adds at most one time point, nothing else adds any,
\* and the points earned from time never exceed floor(elapsed_time).
C18_SecondScored ==
    [][/\ (TimedFrame /\ end_reason' = None) =>
             /\ score' = (IF FInt(elapsed_time) > last_scored_second
                            THEN score + 1 ELSE score)
             /\ last_scored_second' =
                   (IF FInt(elapsed_time) > last_scored_second
                      THEN FInt(elapsed_time) ELSE last_scored_second)
             /\ ~check_second_scored(elapsed_time, last_scored_second')
       /\ (mode = "time_attack" /\ current_scene = "play"
              /\ current_scene' = "play") =>
             /\ last_scored_second' # last_scored_second => TimedFrame
             /\ TimePoints' # TimePoints => TimedFrame
       /\ (mode = "time_attack" /\ current_scene = "play") =>
             /\ TimePoints <= last_scored_second
             /\ last_scored_second <= FInt(elapsed_time)]_vars

\* C18 witness: a frame of 2.5 seconds was followed by a frame that scored
\* one point for the two whole seconds jumped over.
C18_Witness ==
    /\ mode = "time_attack"
    /\ end_reason = None
    /\ frames = 2
    /\ last_scored_second = 2
    /\ score = 1
    /\ FInt(elapsed_time) = 3

\* C19: whatever the head, the body, the border_lethal flag and the walls,
\* check_collisions returns SelfCollision if and only if the head is one of
\* the body positions, also when the head is outside the grid with a lethal
\* border or on a wall tile.
C19_SelfFirst ==
    collision_result # <<>> =>
        (collision_result[1] = "SELF_COLLISION"
            <=> \E i \in 2..Len(segments) : segments[i] = segments[1])

\* C19 witness: SelfCollision was returned for a head that is in the body
\* and outside the grid, with a lethal border.
C19_Witness ==
    /\ collision_result = <<"SELF_COLLISION">>
    /\ get_mode_config(mode).border_lethal
    /\ segments[1] = <<-1, 5>>
    /\ \E i \in 2..Len(segments) : segments[i] = segments[1]

\* C20: for a head that is not in the body, check_collisions returns
\* WallCollision if and only if the border is lethal and the head is outside
\* [0,16) x [0,14), or the wall set is not empty and holds the head;
\* otherwise it returns none, as for a head outside the grid when the border
\* is not lethal.
C20_WallOrNone ==
    (/\ collision_result # <<>>
     /\ \A i \in 2..Len(segments) : segments[i] # segments[1]) =>
        LET head == segments[1]
            outside == ~(head[1] \in 0..15 /\ head[2] \in 0..13)
            hit == \/ get_mode_config(mode).border_lethal /\ outside
                   \/ walls # {} /\ head \in walls
        IN  collision_result[1] = (IF hit THEN "WALL_COLLISION" ELSE None)

\* C20 witness: none was returned for a head just outside the grid that is
\* in neither the body nor the walls, the border not being lethal.
C20_Witness ==
    /\ collision_result = <<None>>
    /\ ~get_mode_config(mode).border_lethal
    /\ segments[1] = <<16, 5>>
    /\ \A i \in 2..Len(segments) : segments[i] # segments[1]
    /\ walls # {}

\* C21: in Classic and TimeAttack rounds the head is inside the grid after
\* every tick and the round never ends with WallCollision; in Boxed and Maze
\* rounds a tick that moves the head outside the grid ends the round with
\* WallCollision; only Maze rounds have walls and only TimeAttack rounds end
\* with TimeUp.
C21_ModeVariants ==
    [][/\ (InTick /\ mode \in {"classic", "time_attack"}) =>
             /\ segments'[1] \in Cells
             /\ end_reason' # "WALL_COLLISION"
       /\ (InTick /\ mode \in {"boxed", "maze"} /\ segments'[1] \notin Cells) =>
             end_reason' = "WALL_COLLISION"
       /\ end_reason' = "WALL_COLLISION" => mode' \in {"boxed", "maze"}
       /\ walls' # {} => mode' = "maze"
       /\ end_reason' = "TIME_UP" => mode' = "time_attack"]_vars

\* C21 witness: a Maze round has ended with WallCollision, the head having
\* left the grid through its lower edge.
C21_Witness ==
    /\ mode = "maze"
    /\ walls # {}
    /\ end_reason = "WALL_COLLISION"
    /\ segments[1][2] = GRID_HEIGHT

\* A step that can only be a call of start_game: the scene is entered, the
\* mode or the walls change, an ended round is running again, or the clock
\* of the round is back at zero.
StartStep ==
    \/ current_scene # "play" /\ current_scene' = "play"
    \/ mode' # mode
    \/ walls' # walls
    \/ end_reason # None /\ end_reason' = None
    \/ elapsed_time # FZero /\ elapsed_time' = FZero

Dist(a, b) == IF a >= b THEN a - b ELSE b - a

\* Two cells one grid step apart, across an edge too where the mode wraps
OneStep(p, q, wrap) ==
    \/ /\ p[1] = q[1]
       /\ \/ Dist(p[2], q[2]) = 1
          \/ wrap /\ Dist(p[2], q[2]) = GRID_HEIGHT - 1
    \/ /\ p[2] = q[2]
       /\ \/ Dist(p[1], q[1]) = 1
          \/ wrap /\ Dist(p[1], q[1]) = GRID_WIDTH - 1

\* C23: consecutive snake segments differ by exactly one grid step: equal in
\* one coordinate and 1 apart in the other, or width-1 / height-1 apart
\* across an edge in the modes that wrap.
C23_OneStepApart ==
    \A i \in 1..(Len(segments) - 1) :
        OneStep(segments[i], segments[i + 1], get_mode_config(mode).wrap_around)

\* C23 witness: in a Classic round the head has wrapped from the top row to
\* the bottom row while the next segment is still on the top row.
C23_Witness ==
    /\ mode = "classic"
    /\ Len(segments) >= 3
    /\ segments[1][2] = GRID_HEIGHT - 1
    /\ segments[2][2] = 0

\* C24: the snake is never empty while the play scene can be updated: it has
\* 3 segments when a round starts, its length never goes down during the
\* round and changes only by +1, on a tick.
C24_NeverEmpty ==
    [][/\ current_scene = "play" => Len(segments) > 0
       /\ (current_scene # "play" /\ current_scene' = "play") =>
             Len(segments') = 3
       /\ current_scene = "play" =>
             /\ Len(segments') \in {Len(segments), Len(segments) + 1}
             /\ Len(segments') # Len(segments) => InTick]_vars

\* C24 witness: the snake of a running round has grown to 5 segments.
C24_Witness ==
    /\ current_scene = "play"
    /\ end_reason = None
    /\ Len(segments) = 5
    /\ score = 2 * SCORE_PER_FOOD

\* The second a stamp was taken at
StampSecond(ts) == (ts[1] - 48) * 10 + (ts[2] - 48)

\* A list in the order of the table: higher scores first and, among equal
\* scores, earlier stamps first
InTableOrder(es) ==
    \A i, j \in 1..Len(es) :
        i < j => \/ es[i].score > es[j].score
                 \/ /\ es[i].score = es[j].score
                    /\ StampSecond(es[i].ts) <= StampSecond(es[j].ts)

\* The latest call and whether this step is a call of the operation op
ThisCall == table_call'[1]
IsCall(op) == table_calls' = table_calls + 1 /\ ThisCall.op = op

\* The scores of the dicts of a file's list, as an entry holds them
FileScores(list) ==
    [k \in {i \in 1..Len(list.items) : list.items[i].is_dict} |->
        IF list.items[k].score = <<>> \/ list.items[k].score[1] < 0
        THEN 0 ELSE list.items[k].score[1]]

\* The number of entries of a list with a score of v or more
AtLeast(es, v) == Cardinality({i \in DOMAIN es : es[i].score >= v})

\* C25: after add_score and from_dict calls in any order every mode's list
\* has at most 10 entries, in order of score descending and, among equal
\* scores, stamp ascending; an insertion into a full list drops the entry
\* that was last and keeps the others in their order, so that no kept entry
\* has a lower score than the dropped one; a loaded list keeps the 10
\* highest scores of the file.
C25_TableOrder ==
    [][/\ \A m \in GameMode :
             Len(scores'[m]) <= 10 /\ InTableOrder(scores'[m])
       /\ (IsCall("add_score") /\ ThisCall.ok
              /\ Len(scores[ThisCall.mode]) = 10) =>
             LET old == scores[ThisCall.mode]
                 new == scores'[ThisCall.mode]
             IN  /\ Len(new) = 10
                 /\ \E j \in 1..10 :
                       /\ new[j].score = ThisCall.score
                       /\ SubSeq(new, 1, j - 1) \o SubSeq(new, j + 1, 10)
                             = SubSeq(old, 1, 9)
                 /\ \A i \in 1..10 : new[i].score >= old[10].score
       /\ IsCall("from_dict") =>
             \A m \in DOMAIN HighScoreFiles[ThisCall.file] :
                LET list == HighScoreFiles[ThisCall.file][m]
                    given == FileScores(list)
                IN  list.is_list =>
                       \A v \in {given[k] : k \in DOMAIN given} :
                          LET n == Cardinality({k \in DOMAIN given :
                                                   given[k] >= v})
                          IN  AtLeast(scores'[m], v) = (IF n > 10 THEN 10 ELSE n)]_vars

\* C25 witness: a score of 50 added at second 10 to the full table has gone
\* in behind the 50 of second 9, and the last entry of 10 points has gone.
C25_Witness ==
    /\ table_calls = 2
    /\ table_call[1].op = "add_score"
    /\ table_call[1].ok
    /\ Len(scores["classic"]) = 10
    /\ scores["classic"][1].ts = strftime(9)
    /\ scores["classic"][2].score = 50
    /\ scores["classic"][2].ts = strftime(10)
    /\ scores["classic"][10].ts = strftime(9)
    /\ scores["classic"][10].score = 10

\* C26: qualifies(mode, s) is true iff the mode's list has fewer than 10
\* entries or s is strictly greater than the score of its last entry;
\* add_score returns false and leaves every list as it is exactly when
\* qualifies is false, and otherwise returns true with the new entry in the
\* mode's list and the other modes' lists as they were.
C26_Qualifies ==
    [][IsCall("add_score") =>
          LET m == ThisCall.mode
              old == scores[m]
              fits == \/ Len(old) < 10
                      \/ ThisCall.score > old[Len(old)].score
          IN  /\ qualifies(scores, m, ThisCall.score) <=> fits
              /\ ThisCall.ok <=> fits
              /\ ~fits <=> scores' = scores
              /\ fits =>
                    /\ \E j \in 1..Len(scores'[m]) :
                          /\ scores'[m][j].score = ThisCall.score
                          /\ scores'[m][j].ts = strftime(ThisCall.now)
                          /\ scores'[m][j].name = _validate_name(ThisCall.name)
                          /\ SubSeq(scores'[m], 1, j - 1)
                                \o SubSeq(scores'[m], j + 1, Len(scores'[m]))
                                = SubSeq(old, 1, Len(scores'[m]) - 1)
                    /\ \A other \in GameMode \ {m} :
                          scores'[other] = scores[other]]_vars

\* C26 witness: a score of 10 offered to a full table whose last entry has
\* 10 points was turned down.
C26_Witness ==
    /\ table_call # <<>>
    /\ table_call[1].op = "add_score"
    /\ table_call[1].score = 10
    /\ ~table_call[1].ok
    /\ Len(scores[table_call[1].mode]) = 10
    /\ scores[table_call[1].mode][10].score = 10

\* The characters A-Z and 0-9
NameAlphabet == (65..90) \cup (48..57)

\* What holds of every sanitized name: it has exactly 3 characters of the
\* alphabet, is AAA when the name given has another length than 3, and is
\* returned as it is when sanitized again.
SanitizedName(name, out) ==
    /\ Len(out) = 3
    /\ \A i \in 1..3 : out[i] \in NameAlphabet
    /\ Len(name) # 3 => out = <<65, 65, 65>>
    /\ _validate_name(out) = out
    /\ (Len(name) = 3 /\ \A i \in 1..3 : name[i] \in NameAlphabet) => out = name

\* C27 as stated: in a name of 3 characters every character outside A-Z0-9
\* is replaced by A and every character inside is kept.
C27_Original ==
    name_call.out # <<>> =>
        LET name == name_call.name
            out == name_call.out[1]
        IN  /\ SanitizedName(name, out)
            /\ Len(name) = 3 =>
                  \A i \in 1..3 :
                     out[i] = (IF name[i] \in NameAlphabet THEN name[i] ELSE 65)

\* C27 amended: the sanitized name has exactly 3 characters from A-Z0-9, is
\* AAA for a name of another length than 3, and does not change when
\* sanitized again; in a name of 3 ASCII characters A-Z and 0-9 are kept,
\* a-z are replaced by their upper case and every other character by A.
C27_Sanitized ==
    name_call.out # <<>> =>
        LET name == name_call.name
            out == name_call.out[1]
        IN  /\ SanitizedName(name, out)
            /\ (Len(name) = 3 /\ \A i \in 1..3 : name[i] < 128) =>
                  \A i \in 1..3 :
                     out[i] = (IF name[i] \in NameAlphabet THEN name[i]
                               ELSE IF name[i] \in 97..122 THEN name[i] - 32
                               ELSE 65)

\* C27 witness: "z!9" has been sanitized to "ZA9".
C27_Witness ==
    /\ name_call.name = <<122, 33, 57>>
    /\ name_call.out = <<<<90, 65, 57>>>>

\* A step that starts a Maze game from the menus
MazeStart == current_scene # "play" /\ current_scene' = "play" /\ mode' = "maze"

\* C28: the layout index starts at 0 and stays in 0..4; a Maze game started
\* gets the walls of the layout the index points at and moves the index one
\* on, 4 being followed by 0; no other step, the start of a Classic, Boxed
\* or TimeAttack game included, changes the index. The k-th Maze game of a
\* session therefore uses layout k mod 5.
C28_MazeRotation ==
    [][/\ maze_map_index \in 0..4
       /\ maze_map_index' \in 0..4
       /\ (frames = 0 /\ current_scene = "main_menu" /\ segments = <<>>) =>
             maze_map_index = 0
       /\ MazeStart =>
             /\ walls' = ALL_MAPS[maze_map_index + 1]
             /\ maze_map_index' = (IF maze_map_index = 4 THEN 0
                                    ELSE maze_map_index + 1)
       /\ ~MazeStart => maze_map_index' = maze_map_index]_vars

\* C28 witness: a Maze game is running on the fifth layout with the index
\* back at 0, the round that ended last being a Boxed one.
C28_Witness ==
    /\ current_scene = "play"
    /\ mode = "maze"
    /\ walls = MAP_5
    /\ maze_map_index = 0
    /\ results.mode = "boxed"
    /\ frames = 2

\* A step that is the call of the named Snake method
SnakeStep(op) == snake_call' # snake_call /\ snake_call'[1].op = op

\* C29: grow() sets the growth flag and changes no segment; move() puts the
\* new head at the front and clears the flag, keeping the tail when the flag
\* was set (one segment more) and removing it otherwise (same length); each
\* segment that stays sits one index further toward the tail.
C29_GrowThenMove ==
    [][/\ SnakeStep("grow") =>
             /\ grow_pending' = TRUE
             /\ segments' = segments
       /\ SnakeStep("move") =>
             /\ segments'[1] =
                   get_next_head(segments, direction, snake_call'[1].wrap)
             /\ grow_pending' = FALSE
             /\ Len(segments') =
                   IF grow_pending THEN Len(segments) + 1 ELSE Len(segments)
             /\ \A i \in 2..Len(segments') : segments'[i] = segments[i - 1]]_vars

\* The start snake after grow() and one move: four segments, the tail kept
C29_Witness ==
    /\ snake_call # <<>>
    /\ snake_call[1].op = "move"
    /\ snake_call[1].n = 2
    /\ ~grow_pending
    /\ segments = <<<<4, 7>>, <<3, 7>>, <<2, 7>>, <<1, 7>>>>

\* The number of 0..n-1 that differs from x by a multiple of n
Modulo(x, n) == CHOOSE r \in 0..(n - 1) : \E q \in -2..2 : x = q * n + r

\* C30: get_next_head(wrap) returns the head plus the direction vector, with
\* wrap x modulo 16 and y modulo 14, a cell of the grid (15 when going left
\* from x = 0, 13 when going up from y = 0), without wrap the sum as it is;
\* the call leaves segments, direction and growth flag as they were.
C30_NextHead ==
    [][SnakeStep("get_next_head") =>
          LET head == segments[1]
              v == DIRECTION_VECTORS(direction)
              out == snake_call'[1].out[1]
          IN  /\ UNCHANGED <<segments, direction, grow_pending>>
              /\ IF snake_call'[1].wrap
                 THEN /\ out = <<Modulo(head[1] + v[1], 16),
                                 Modulo(head[2] + v[2], 14)>>
                      /\ out[1] \in 0..15
                      /\ out[2] \in 0..13
                      /\ head[1] = 0 /\ direction = "LEFT" => out[1] = 15
                      /\ head[2] = 0 /\ direction = "UP" => out[2] = 13
                 ELSE out = <<head[1] + v[1], head[2] + v[2]>>]_vars

\* Going left from x = 0 with wrap: the next head is in column 15
C30_Witness ==
    /\ snake_call # <<>>
    /\ snake_call[1].op = "get_next_head"
    /\ snake_call[1].wrap
    /\ direction = "LEFT"
    /\ segments[1] = <<0, 5>>
    /\ snake_call[1].out = <<<<15, 5>>>>

\* Without wrap the sum leaves the grid: column -1 or 16, row -1 or 14
C30_RawSum ==
    /\ snake_call # <<>>
    /\ snake_call[1].op = "get_next_head"
    /\ ~snake_call[1].wrap
    /\ \/ snake_call[1].out[1][1] \in {-1, 16}
       \/ snake_call[1].out[1][2] \in {-1, 14}

\* C31: an unpaused update(dt) that does not end the round finds the ticks
\* due and the accumulator it leaves from ticks_per_second as it is at the
\* call; each tick of the frame then takes one from the ticks due and leaves
\* the accumulator alone, whether or not it eats and raises the speed, so a
\* raised speed first counts in the next update.
C31_SpeedNextFrame ==
    [][/\ (frames' = frames + 1 /\ end_reason' = None) =>
             \E dt \in FrameTimesOf(mode) :
                /\ time_played' = ExactAdd(time_played, dt)
                /\ ticks_per_second' = ticks_per_second
                /\ <<tick_accumulator', ticks_left'>> =
                      tick_loop(FAdd(tick_accumulator, dt),
                                FDiv(FDyadic(1, 0), ticks_per_second), 0)
       /\ InTick =>
             /\ tick_accumulator' = tick_accumulator
             /\ ticks_left' = IF end_reason' # None THEN 0 ELSE ticks_left - 1
             /\ frames' = frames]_vars

\* C31 witness: in the second frame, entered at 8.25 ticks per second with
\* nothing in the accumulator, a frame of 1/8 s has found one tick due, which
\* at 8 ticks per second would have left the accumulator at 0.
C31_Witness ==
    /\ frames = 2
    /\ ticks_left = 1
    /\ end_reason = None
    /\ speed_ups = 1
    /\ ticks_per_second = FDyadic(33, 2)
    /\ time_played = FDyadic(9, 3)
    /\ tick_accumulator # FZero

\* The number of whole animation intervals of 1/4 s in the time t
Intervals(t) == FInt(FAdd(FAdd(t, t), FAdd(t, t)))

\* C32: after any calls of update_animation on a new Food, with T the sum of
\* the dt of the unpaused calls, the frame index is floor(T / 0.25) mod 2
\* and the accumulator is T - 0.25 * floor(T / 0.25), at least 0 and less
\* than 0.25; paused calls, which add nothing to T, change neither.
C32_Animation ==
    /\ animation_frame = Intervals(time_played) % 2
    /\ animation_timer = FSub(time_played, FDyadic(Intervals(time_played), 2))
    /\ ~FGeq(animation_timer, FDyadic(1, 2))

\* The direction of the unit step from cell p to cell q, a step across a
\* wrapped edge counting as the step across that edge
StepDirection(p, q) ==
    CHOOSE d \in Direction :
       /\ (q[1] - p[1] - DIRECTION_VECTORS(d)[1]) % GRID_WIDTH = 0
       /\ (q[2] - p[2] - DIRECTION_VECTORS(d)[2]) % GRID_HEIGHT = 0

\* C33: get_segment_directions returns one pair per segment; the head has no
\* incoming and the tail no outgoing direction; otherwise incoming is the
\* direction of the step from the head-ward neighbour to the segment and
\* outgoing that of the step from the segment to its tail-ward neighbour.
C33_SegmentDirections ==
    [][SnakeStep("get_segment_directions") =>
          LET out == snake_call'[1].out[1]
              n == Len(segments)
          IN  /\ Len(out) = n
              /\ out[1][1] = None
              /\ out[n][2] = None
              /\ \A i \in 2..n :
                    out[i][1] = StepDirection(segments[i - 1], segments[i])
              /\ \A i \in 1..(n - 1) :
                    out[i][2] = StepDirection(segments[i], segments[i + 1])]_vars

\* C34: right after every start_game the food's animation frame is 0 and
\* its animation accumulator is 0, whatever the round before has left.
C34_FreshFood ==
    [][StartStep => animation_frame' = 0 /\ animation_timer' = FZero]_vars

\* C35: while a Maze round is running, whichever of the five layouts is
\* installed, no snake segment lies on a wall tile; the three start segments
\* in particular are off the walls.
C35_SnakeOffWalls ==
    (RoundRunning /\ mode = "maze") =>
        \A i \in 1..Len(segments) : segments[i] \notin walls

\* C35, the first tick: a Maze round left without input does not end on the
\* first tick after start_game.
C35_FirstTickSurvives ==
    [][(/\ InTick
        /\ mode = "maze"
        /\ segments = <<<<3, 7>>, <<2, 7>>, <<1, 7>>>>
        /\ current_direction = "RIGHT"
        /\ pending_direction = None
        /\ score = 0) => end_reason' = None]_vars

\* The foods eaten in the round, read off the snake
FoodsEaten == Len(segments) - 3 + (IF grow_pending THEN 1 ELSE 0)

\* The points of the round that did not come from food
SecondsScored == score - 10 * FoodsEaten

\* Speed and score as the foods eaten give them
ScoreAndSpeed ==
    Len(segments) > 0 =>
        /\ ticks_per_second =
              FDyadic(IF 32 + FoodsEaten < 56 THEN 32 + FoodsEaten ELSE 56, 2)
        /\ SecondsScored >= 0
        /\ mode # "time_attack" => SecondsScored = 0 /\ score % 10 = 0

\* C36: in a round, with f = len(segments) - 3 (+ 1 if growth is pending),
\* ticks_per_second = min(8.0 + 0.25 * f, 14.0) and score = 10 * f + t, where
\* t grows by one with each per-second point awarded and is 0 outside
\* TimeAttack; the score never decreases during a round.
C36_ScoreAndSpeed ==
    [][/\ ScoreAndSpeed
       /\ ScoreAndSpeed'
       /\ (Len(segments) > 0 /\ ~StartStep) =>
             /\ score' >= score
             /\ SecondsScored' - SecondsScored =
                   (IF mode = "time_attack"
                          /\ last_scored_second' # last_scored_second
                    THEN 1 ELSE 0)]_vars

\* C36 witness: a TimeAttack round at a frame boundary with one food eaten
\* and one second scored
C36_Witness ==
    /\ mode = "time_attack"
    /\ end_reason = None
    /\ ticks_left = 0
    /\ frames = 2
    /\ FoodsEaten = 1
    /\ score = 11
    /\ ticks_per_second = FDyadic(33, 2)

\* A TimeAttack round that has not ended, between two frames
TimedBoundary ==
    /\ mode = "time_attack"
    /\ Len(segments) > 0
    /\ end_reason = None
    /\ ticks_left = 0

\* C37 as stated: in a TimeAttack round that has not ended, at every frame
\* boundary elapsed_time + time_remaining = 120 and last_scored_second is at
\* most floor(elapsed_time).
C37_Original ==
    TimedBoundary =>
        /\ ExactAdd(elapsed_time, time_remaining) = TIME_ATTACK_DURATION
        /\ last_scored_second <= FInt(elapsed_time)

\* elapsed_time + time_remaining is 120 to within a nanosecond
NearDuration ==
    /\ ~time_remaining[1]
    /\ FGeq(ExactAdd(ExactAdd(elapsed_time, time_remaining), FDyadic(1, 30)),
            TIME_ATTACK_DURATION)
    /\ FLeq(ExactAdd(elapsed_time, time_remaining),
            ExactAdd(TIME_ATTACK_DURATION, FDyadic(1, 30)))

\* C37 amended: an unpaused frame that does not end the round adds dt to
\* elapsed_time and takes dt from time_remaining, each rounded in floating
\* point, and no other step of the round changes either; at every frame
\* boundary the two add up to 120 to within that rounding (exactly, while
\* every value met is exact), and last_scored_second <= floor(elapsed_time).
C37_TimeBalance ==
    [][/\ (TimedFrame /\ end_reason' = None) =>
             /\ elapsed_time' = FAdd(elapsed_time, FMake(FALSE, FrameTime))
             /\ time_remaining' =
                   FSub(time_remaining, FMake(FALSE, FrameTime))
       /\ (TimedBoundary /\ TimedBoundary' /\ ~TimedFrame /\ ~StartStep) =>
             UNCHANGED <<elapsed_time, time_remaining>>
       /\ TimedBoundary' =>
             /\ NearDuration'
             /\ last_scored_second' <= FInt(elapsed_time')
             /\ time_played' \in {FDyadic(1, 0), FDyadic(2, 0), FDyadic(5, 1),
                                  FDyadic(7, 1), FDyadic(5, 0)} =>
                   ExactAdd(elapsed_time', time_remaining')
                      = TIME_ATTACK_DURATION]_vars

\* C37 witness: two frames of 0.7 seconds into a TimeAttack round, which is
\* running; elapsed time and time remaining do not add up to 120.
C37_Witness ==
    /\ TimedBoundary
    /\ frames = 2
    /\ elapsed_time = FAdd(FDiv(FDyadic(7, 0), FDyadic(10, 0)),
                           FDiv(FDyadic(7, 0), FDyadic(10, 0)))
    /\ ExactAdd(elapsed_time, time_remaining) # TIME_ATTACK_DURATION

\* A tick that moves the head into the cell the tail is on before the tick
IntoTailCell ==
    /\ InTick
    /\ Len(segments) >= 2
    /\ segments'[1] = segments[Len(segments)]
    /\ \A i \in 1..(Len(segments) - 1) : segments[i] # segments[Len(segments)]

\* C38: a tick that moves the head into the cell the tail was on is no
\* self-collision when no growth is pending, the tail having left the cell
\* before the check; with growth pending it ends the round with
\* SelfCollision.
C38_TailCell ==
    [][IntoTailCell =>
          IF grow_pending
          THEN /\ collision_result' = <<"SELF_COLLISION">>
               /\ end_reason' = "SELF_COLLISION"
               /\ results'.reason = "SELF_COLLISION"
          ELSE /\ collision_result' = <<None>>
               /\ end_reason' = None
               /\ Len(segments') = Len(segments)]_vars

\* C38 witness: the curled-up snake has turned down into the cell its tail
\* has just left, and the round goes on.
C38_Witness ==
    /\ segments = <<<<5, 6>>, <<5, 5>>, <<6, 5>>, <<6, 6>>>>
    /\ current_direction = "DOWN"
    /\ collision_result = <<None>>
    /\ end_reason = None
    /\ current_scene = "play"

\* With growth pending the same move has ended the round.
C38_GrowthCollides ==
    /\ segments = <<<<5, 6>>, <<5, 5>>, <<6, 5>>, <<6, 6>>, <<5, 6>>>>
    /\ end_reason = "SELF_COLLISION"

\* A running round between two frames
FrameBoundary == RoundRunning /\ current_scene = "play" /\ ticks_left = 0

ZeroFrame == frames' = frames + 1 /\ time_played' = time_played

RoundEnds == end_reason = None /\ end_reason' # None

\* C40: the step of an update on which a round ends makes the results scene
\* the current scene, with the round's mode, final score and end reason, and
\* leaves no tick of that update to be processed; from then on nothing
\* reaches the play scene until a game is started, and the results are
\* handed over on no other step.
C40_ResultsOnce ==
    [][/\ RoundEnds =>
             /\ current_scene = "play"
             /\ frames' = frames + 1 \/ InTick
             /\ current_scene' = "results"
             /\ results' = [mode |-> mode, score |-> score',
                            reason |-> end_reason']
             /\ mode' = mode
             /\ ticks_left' = 0
       /\ end_reason # None =>
             /\ current_scene # "play"
             /\ StartStep /\ current_scene' = "play" /\ end_reason' = None
       /\ ~RoundEnds =>
             /\ results' = results
             /\ current_scene' = "results" => current_scene = "results"]_vars

\* C40 witness: a Boxed round has ended on the border in its second frame
\* with one food eaten; the results scene shows it.
C40_Witness ==
    /\ current_scene = "results"
    /\ mode = "boxed"
    /\ end_reason = "WALL_COLLISION"
    /\ score = 10
    /\ results = [mode |-> "boxed", score |-> 10, reason |-> "WALL_COLLISION"]
    /\ frames = 2
    /\ ticks_left = 0

====
